---- MODULE Spec2Model ----
(***************************************************************************)
(* RBAC backend (hr_backend): users, roles, permissions, their             *)
(* associations, JWT sessions with an in-memory blocklist, and the         *)
(* permission-gated route handlers.                                        *)
(*                                                                         *)
(* A handler is a pure operator from the committed database and the        *)
(* request to a response and the statements its session flushes at         *)
(* db.session.commit(); ApplyTx runs those statements against the          *)
(* database under the schema's constraints.                                *)
(***************************************************************************)
EXTENDS Integers, Sequences, FiniteSets, TLC

VARIABLES users, roles, permissions, user_roles, role_permissions,
          tokens, blacklisted_tokens, reset_tokens, secrets_drawn,
          now, resp, pending

vars == <<users, roles, permissions, user_roles, role_permissions,
          tokens, blacklisted_tokens, reset_tokens, secrets_drawn,
          now, resp, pending>>

store == <<users, roles, permissions, user_roles, role_permissions>>

\* routes/auth.py: the reset_tokens dict, and how many tokens
\* forgot_password has generated so far
resets == <<reset_tokens, secrets_drawn>>

----------------------------------------------------------------------------
(* Bounds of the model *)

MaxUserId == 2
MaxRoleId == 4
MaxPermId == 10
MaxTokens == 2
MaxTicks == 1
MaxResetTokens == 2

(* Program constants *)

JWT_TTL == 24

----------------------------------------------------------------------------
(* Optional JSON keys: None is an absent key, Some(x) a present one *)

None == {}
Some(x) == {x}
IsSome(o) == o # {}
Get(o) == CHOOSE x \in o : TRUE

Max(S) == CHOOSE x \in S : \A y \in S : y <= x

\* INTEGER PRIMARY KEY of SQLite: the next rowid is the largest one plus 1
NextId(rows) == IF DOMAIN rows = {} THEN 1 ELSE Max(DOMAIN rows) + 1

\* rows @@ (id :> row)
Put(rows, id, row) ==
    [i \in DOMAIN rows \cup {id} |-> IF i = id THEN row ELSE rows[i]]

Drop(rows, id) == [i \in DOMAIN rows \ {id} |-> rows[i]]

\* the ids of a set in ascending order
RECURSIVE SetToSeq(_)
SetToSeq(S) ==
    IF S = {} THEN <<>>
    ELSE LET m == CHOOSE x \in S : \A y \in S : x <= y
         IN <<m>> \o SetToSeq(S \ {m})

----------------------------------------------------------------------------
(* The database as a value *)

DB == [users |-> users, roles |-> roles, permissions |-> permissions,
       user_roles |-> user_roles, role_permissions |-> role_permissions]

EmptyDB == [users |-> <<>>, roles |-> <<>>, permissions |-> <<>>,
            user_roles |-> {}, role_permissions |-> {}]

\* user.roles: the join of user_roles with role
RolesOf(db, u) == {r \in DOMAIN db.roles : <<u, r>> \in db.user_roles}

\* role.permissions: the join of role_permissions with permission
PermsOf(db, r) == {p \in DOMAIN db.permissions : <<r, p>> \in db.role_permissions}

\* role.users (backref)
UsersOf(db, r) == {u \in DOMAIN db.users : <<u, r>> \in db.user_roles}

\* permission.roles (backref)
RolesWith(db, p) == {r \in DOMAIN db.roles : <<r, p>> \in db.role_permissions}

UserByUsername(db, n) == {u \in DOMAIN db.users : db.users[u].username = n}
UserByEmail(db, e) == {u \in DOMAIN db.users : db.users[u].email = e}
RoleByName(db, n) == {r \in DOMAIN db.roles : db.roles[r].name = n}
PermByName(db, n) == {p \in DOMAIN db.permissions : db.permissions[p].name = n}

----------------------------------------------------------------------------
(* models/user.py *)

Salts == {"s1"}

\* two passwords of 73 bytes that agree on their first 72 bytes
LongPasswords == {"p72+a", "p72+b"}

\* what bcrypt.hashpw reads of a password: its first 72 bytes (Flask-Bcrypt
\* passes the password on as it is, BCRYPT_HANDLE_LONG_PASSWORDS being off)
hashpw_input(password) ==
    IF password \in LongPasswords THEN "p72" ELSE password

\* the bcrypt builds: up to 4.x hashpw drops what follows the 72nd byte, from
\* 5.0 on it raises ValueError for such a password
BcryptBuilds == {"truncate", "raise"}

hashpw_raises(password, build) ==
    build = "raise" /\ password \in LongPasswords

\* bcrypt.generate_password_hash(password): a salted digest, never the plaintext
generate_password_hash(password, salt) ==
    [salt |-> salt, digest |-> <<salt, hashpw_input(password)>>]

\* bcrypt.check_password_hash(hash, password)
check_password_hash(hash, password) ==
    hash.digest = <<hash.salt, hashpw_input(password)>>

\* User.check_password
check_password(user, password) == check_password_hash(user.password, password)

\* inner loop of User.has_permission, over one role's permissions
RECURSIVE role_has_permission(_, _, _)
role_has_permission(db, ps, permission_name) ==
    IF ps = <<>> THEN FALSE
    ELSE IF db.permissions[Head(ps)].name = permission_name THEN TRUE
    ELSE role_has_permission(db, Tail(ps), permission_name)

\* outer loop of User.has_permission, over the user's roles
RECURSIVE user_has_permission(_, _, _)
user_has_permission(db, rs, permission_name) ==
    IF rs = <<>> THEN FALSE
    ELSE IF role_has_permission(db, SetToSeq(PermsOf(db, Head(rs))), permission_name)
         THEN TRUE
    ELSE user_has_permission(db, Tail(rs), permission_name)

\* a has_permission that stops after the first role
has_permission_first_role(db, u, permission_name) ==
    /\ RolesOf(db, u) # {}
    /\ role_has_permission(
           db, SetToSeq(PermsOf(db, Head(SetToSeq(RolesOf(db, u))))), permission_name)

\* User.has_permission
has_permission(db, u, permission_name) ==
    user_has_permission(db, SetToSeq(RolesOf(db, u)), permission_name)

\* a get_permissions that reads the first role only
get_permissions_first_role(db, u) ==
    IF RolesOf(db, u) = {} THEN {}
    ELSE {db.permissions[p].name : p \in PermsOf(db, Head(SetToSeq(RolesOf(db, u))))}

\* User.get_permissions: the names gathered in a set
get_permissions(db, u) ==
    {db.permissions[p].name : p \in UNION {PermsOf(db, r) : r \in RolesOf(db, u)}}

----------------------------------------------------------------------------
(* The statements a session flushes, and the schema's constraints.         *)
(* unique=True on User.username, User.email, Role.name, Permission.name;   *)
(* (user_id, role_id) and (role_id, permission_id) are primary keys.       *)
(* SQLite does not enforce the foreign keys (no PRAGMA foreign_keys).      *)
(* An UPDATE or DELETE that matches no row is a StaleDataError.            *)

Failed == [ok |-> FALSE]
Done(db) == [ok |-> TRUE, db |-> db]

\* old row with the columns of `set` overwritten
Merge(old, set) ==
    [f \in DOMAIN old |-> IF f \in DOMAIN set THEN set[f] ELSE old[f]]

\* a column declared without unique=True
UniqueOk_undeclared(rows, id, col, val) == TRUE

\* unique=True on a column: no other row holds the value
UniqueOk(rows, id, col, val) ==
    \A i \in DOMAIN rows \ {id} : rows[i][col] # val

UserRowOk(rows, id, row) ==
    /\ UniqueOk(rows, id, "username", row.username)
    /\ UniqueOk(rows, id, "email", row.email)

Exec(db, s) ==
    CASE s.k = "ins_user" ->
           LET id == NextId(db.users)
               edges == {<<id, r>> : r \in s.roles}
           IN IF UserRowOk(db.users, id, s.row) /\ edges \cap db.user_roles = {}
              THEN Done([db EXCEPT !.users = Put(db.users, id, s.row),
                                   !.user_roles = @ \cup edges])
              ELSE Failed
      [] s.k = "upd_user" ->
           IF s.id \in DOMAIN db.users
              /\ UserRowOk(db.users, s.id, Merge(db.users[s.id], s.set))
           THEN Done([db EXCEPT !.users[s.id] = Merge(@, s.set)])
           ELSE Failed
      [] s.k = "del_user" ->
           IF s.id \in DOMAIN db.users
           THEN Done([db EXCEPT !.users = Drop(@, s.id)])
           ELSE Failed
      [] s.k = "ins_role" ->
           LET id == NextId(db.roles)
               edges == {<<id, p>> : p \in s.permissions}
           IN IF UniqueOk(db.roles, id, "name", s.row.name)
                 /\ edges \cap db.role_permissions = {}
              THEN Done([db EXCEPT !.roles = Put(db.roles, id, s.row),
                                   !.role_permissions = @ \cup edges])
              ELSE Failed
      [] s.k = "upd_role" ->
           IF s.id \in DOMAIN db.roles
              /\ UniqueOk(db.roles, s.id, "name", Merge(db.roles[s.id], s.set).name)
           THEN Done([db EXCEPT !.roles[s.id] = Merge(@, s.set)])
           ELSE Failed
      [] s.k = "del_role" ->
           IF s.id \in DOMAIN db.roles
           THEN Done([db EXCEPT !.roles = Drop(@, s.id)])
           ELSE Failed
      [] s.k = "ins_permission" ->
           LET id == NextId(db.permissions)
           IN IF UniqueOk(db.permissions, id, "name", s.row.name)
              THEN Done([db EXCEPT !.permissions = Put(db.permissions, id, s.row)])
              ELSE Failed
      [] s.k = "upd_permission" ->
           IF s.id \in DOMAIN db.permissions
              /\ UniqueOk(db.permissions, s.id, "name",
                          Merge(db.permissions[s.id], s.set).name)
           THEN Done([db EXCEPT !.permissions[s.id] = Merge(@, s.set)])
           ELSE Failed
      [] s.k = "del_permission" ->
           IF s.id \in DOMAIN db.permissions
           THEN Done([db EXCEPT !.permissions = Drop(@, s.id)])
           ELSE Failed
      [] s.k = "ins_user_roles" ->
           IF s.edges \cap db.user_roles = {}
           THEN Done([db EXCEPT !.user_roles = @ \cup s.edges])
           ELSE Failed
      [] s.k = "del_user_roles" ->
           IF s.edges \subseteq db.user_roles
           THEN Done([db EXCEPT !.user_roles = @ \ s.edges])
           ELSE Failed
      [] s.k = "ins_role_permissions" ->
           IF s.edges \cap db.role_permissions = {}
           THEN Done([db EXCEPT !.role_permissions = @ \cup s.edges])
           ELSE Failed
      [] s.k = "del_role_permissions" ->
           IF s.edges \subseteq db.role_permissions
           THEN Done([db EXCEPT !.role_permissions = @ \ s.edges])
           ELSE Failed

\* db.session.commit(): every statement, or none (rollback)
RECURSIVE ApplyTx(_, _)
ApplyTx(db, tx) ==
    IF tx = <<>> THEN Done(db)
    ELSE LET r == Exec(db, Head(tx))
         IN IF r.ok THEN ApplyTx(r.db, Tail(tx)) ELSE Failed

----------------------------------------------------------------------------
(* main.py: init_database *)

DefaultPermissions ==
    <<"user_read", "user_write", "user_delete",
      "role_read", "role_write", "role_delete",
      "permission_read", "permission_write", "permission_delete">>

DefaultRoles == <<"Admin", "HR", "Employee">>

HRPermissions == {"user_read", "user_write", "role_read"}
EmployeePermissions == {"user_read"}

\* for name in names: if no row has the name, add one
RECURSIVE AddMissing(_, _)
AddMissing(rows, names) ==
    IF names = <<>> THEN rows
    ELSE AddMissing(IF \E i \in DOMAIN rows : rows[i].name = Head(names)
                    THEN rows
                    ELSE Put(rows, NextId(rows), [name |-> Head(names)]),
                    Tail(names))

\* a SetRolePermissions that adds the named permissions to those the role has
SetRolePermissions_additive(db, role_name, names) ==
    IF RoleByName(db, role_name) = {} THEN db
    ELSE LET r == CHOOSE x \in RoleByName(db, role_name) : TRUE
             ps == {p \in DOMAIN db.permissions : db.permissions[p].name \in names}
         IN [db EXCEPT !.role_permissions = @ \cup {<<r, p>> : p \in ps}]

\* role.permissions = <the permissions named in names>, when the role exists
SetRolePermissions(db, role_name, names) ==
    IF RoleByName(db, role_name) = {} THEN db
    ELSE LET r == CHOOSE x \in RoleByName(db, role_name) : TRUE
             ps == {p \in DOMAIN db.permissions : db.permissions[p].name \in names}
         IN [db EXCEPT !.role_permissions =
                (@ \ {<<r, p>> : p \in PermsOf(db, r)}) \cup {<<r, p>> : p \in ps}]

init_database(db) ==
    LET d1 == [db EXCEPT !.permissions = AddMissing(@, DefaultPermissions),
                         !.roles = AddMissing(@, DefaultRoles)]
        all == {d1.permissions[p].name : p \in DOMAIN d1.permissions}
        d2 == SetRolePermissions(d1, "Admin", all)
        d3 == SetRolePermissions(d2, "HR", HRPermissions)
    IN SetRolePermissions(d3, "Employee", EmployeePermissions)

----------------------------------------------------------------------------
(* Responses *)

\* a response that flushes nothing
Reply(op, cred, status, msg) ==
    [op |-> op, cred |-> cred, status |-> status, msg |-> msg, count |-> 0,
     access_token |-> None, reset_token |-> None, tx |-> <<>>]

\* a response after db.session.commit() of the statements tx
Commit(op, cred, status, msg, tx) ==
    [op |-> op, cred |-> cred, status |-> status, msg |-> msg, count |-> 0,
     access_token |-> None, reset_token |-> None, tx |-> tx]

\* the except branch that wraps Query.get_or_404: abort(404) raises inside the
\* try, and `except Exception` answers 500 with str(e)
NotFoundRaised(op, cred) == Reply(op, cred, 500, "404 Not Found")

----------------------------------------------------------------------------
(* Bearer credentials and flask_jwt_extended's jwt_required *)

NoCred == [kind |-> "none"]
Jwt(jti) == [kind |-> "jwt", jti |-> jti]
Forged(sub) == [kind |-> "forged", sub |-> sub]

\* a blocklist loader that finds no token revoked
check_if_token_revoked_never(jti) == FALSE

\* routes/auth.py: check_if_token_revoked
check_if_token_revoked(jti) == jti \in blacklisted_tokens

\* the verdict of jwt_required() on a credential: the signature, then the
\* expiry (decode), then the blocklist loader
verify_jwt(cred) ==
    CASE cred.kind = "none" -> "missing"
      [] cred.kind = "forged" -> "invalid"
      [] cred.kind = "jwt" ->
           IF now >= tokens[cred.jti].exp THEN "expired"
           ELSE IF check_if_token_revoked(cred.jti) THEN "revoked"
           ELSE "ok"

jwt_required(op, cred) ==
    CASE verify_jwt(cred) = "missing" ->
           Reply(op, cred, 401, "Missing Authorization Header")
      [] verify_jwt(cred) = "invalid" ->
           Reply(op, cred, 422, "Signature verification failed")
      [] verify_jwt(cred) = "expired" -> Reply(op, cred, 401, "Token has expired")
      [] verify_jwt(cred) = "revoked" ->
           Reply(op, cred, 401, "Token has been revoked")
      [] OTHER -> Reply(op, cred, 0, "ok")

\* int(get_jwt_identity())
get_jwt_identity(cred) == tokens[cred.jti].sub

\* a require_permission that lets every existing user through
require_permission_any_user(db, op, cred, permission_name) ==
    IF jwt_required(op, cred).status # 0 THEN jwt_required(op, cred)
    ELSE IF get_jwt_identity(cred) \notin DOMAIN db.users
         THEN Reply(op, cred, 404, "User not found")
    ELSE Reply(op, cred, 0, "ok")

\* routes/user.py, routes/role.py: require_permission; status 0 lets f run
require_permission(db, op, cred, permission_name) ==
    IF jwt_required(op, cred).status # 0 THEN jwt_required(op, cred)
    ELSE IF get_jwt_identity(cred) \notin DOMAIN db.users
         THEN Reply(op, cred, 404, "User not found")
    ELSE IF ~has_permission(db, get_jwt_identity(cred), permission_name)
         THEN Reply(op, cred, 403, "Insufficient permissions")
    ELSE Reply(op, cred, 0, "ok")

\* a decorator that lets f run for every authenticated caller
Gated_authenticated(db, op, cred, permission_name, f) ==
    IF require_permission_any_user(db, op, cred, permission_name).status # 0
    THEN require_permission_any_user(db, op, cred, permission_name)
    ELSE f

\* the decorated function: f runs only when require_permission lets it
Gated(db, op, cred, permission_name, f) ==
    IF require_permission(db, op, cred, permission_name).status # 0
    THEN require_permission(db, op, cred, permission_name)
    ELSE f

----------------------------------------------------------------------------
(* routes/user.py.  A request body is a record; a string key that is       *)
(* missing or empty is "", any other optional key is None or Some(v).      *)

\* the first of the required fields that is missing, or ""
MissingField(data) ==
    IF data.username = "" THEN "username"
    ELSE IF data.email = "" THEN "email"
    ELSE IF data.password = "" THEN "password"
    ELSE ""

RequiredMsg(field) ==
    CASE field = "username" -> "username is required"
      [] field = "email" -> "email is required"
      [] field = "password" -> "password is required"

\* Role.query.filter(Role.id.in_(ids)).all()
RolesIn(db, ids) == DOMAIN db.roles \cap ids

\* Permission.query.filter(Permission.id.in_(ids)).all()
PermissionsIn(db, ids) == DOMAIN db.permissions \cap ids

\* a replacement that adds the new members and keeps the old ones
ReplaceEdges_additive(kdel, kins, old, new) ==
    IF new \ old = {} THEN <<>> ELSE <<[k |-> kins, edges |-> new \ old]>>

\* the statements that replace a loaded collection `old` by `new`
ReplaceEdges(kdel, kins, old, new) ==
    (IF old \ new = {} THEN <<>> ELSE <<[k |-> kdel, edges |-> old \ new]>>)
    \o (IF new \ old = {} THEN <<>> ELSE <<[k |-> kins, edges |-> new \ old]>>)

\* GET /users
get_users(db, cred) ==
    Gated(db, "get_users", cred, "user_read",
          Reply("get_users", cred, 200, "users"))

\* POST /users
create_user(db, cred, data, salt) ==
    Gated(db, "create_user", cred, "user_write",
      IF MissingField(data) # ""
      THEN Reply("create_user", cred, 400, RequiredMsg(MissingField(data)))
      ELSE IF UserByUsername(db, data.username) # {}
      THEN Reply("create_user", cred, 400, "Username already exists")
      ELSE IF UserByEmail(db, data.email) # {}
      THEN Reply("create_user", cred, 400, "Email already exists")
      ELSE Commit("create_user", cred, 201, "User created successfully",
             <<[k |-> "ins_user",
                row |-> [username |-> data.username, email |-> data.email,
                         first_name |-> IF IsSome(data.first_name)
                                        THEN Get(data.first_name) ELSE "",
                         last_name |-> IF IsSome(data.last_name)
                                       THEN Get(data.last_name) ELSE "",
                         password |-> generate_password_hash(data.password, salt),
                         is_active |-> IF IsSome(data.is_active)
                                       THEN Get(data.is_active) ELSE TRUE],
                roles |-> IF IsSome(data.role_ids)
                          THEN RolesIn(db, Get(data.role_ids)) ELSE {}]>>))

\* GET /users/<id>
get_user(db, cred, user_id) ==
    Gated(db, "get_user", cred, "user_read",
      IF user_id \notin DOMAIN db.users THEN NotFoundRaised("get_user", cred)
      ELSE Reply("get_user", cred, 200, "user"))

\* the columns update_user changes: attributes set to the value they already
\* hold produce no UPDATE
UserChanges(old, data, salt) ==
    LET want == [f \in {"username", "email", "first_name", "last_name",
                         "is_active", "password"} |->
                   CASE f = "username" -> IF data.username # "" THEN Some(data.username)
                                          ELSE None
                     [] f = "email" -> IF data.email # "" THEN Some(data.email) ELSE None
                     [] f = "first_name" -> data.first_name
                     [] f = "last_name" -> data.last_name
                     [] f = "is_active" -> data.is_active
                     [] f = "password" ->
                          IF data.password # ""
                          THEN Some(generate_password_hash(data.password, salt))
                          ELSE None]
        cols == {f \in DOMAIN want : IsSome(want[f]) /\ Get(want[f]) # old[f]}
    IN [f \in cols |-> Get(want[f])]

\* PUT /users/<id>
update_user(db, cred, user_id, data, salt) ==
    Gated(db, "update_user", cred, "user_write",
      IF user_id \notin DOMAIN db.users THEN NotFoundRaised("update_user", cred)
      ELSE IF data.username # "" /\ UserByUsername(db, data.username) \ {user_id} # {}
      THEN Reply("update_user", cred, 400, "Username already exists")
      ELSE IF data.email # "" /\ UserByEmail(db, data.email) \ {user_id} # {}
      THEN Reply("update_user", cred, 400, "Email already exists")
      ELSE LET set == UserChanges(db.users[user_id], data, salt)
               old == {<<user_id, r>> : r \in RolesOf(db, user_id)}
               new == IF IsSome(data.role_ids)
                      THEN {<<user_id, r>> : r \in RolesIn(db, Get(data.role_ids))}
                      ELSE old
           IN Commit("update_user", cred, 200, "User updated successfully",
                (IF DOMAIN set = {} THEN <<>>
                 ELSE <<[k |-> "upd_user", id |-> user_id, set |-> set]>>)
                \o ReplaceEdges("del_user_roles", "ins_user_roles", old, new)))

\* a delete_user without the check of the caller's own id
delete_user_any_id(db, cred, user_id) ==
    Gated(db, "delete_user", cred, "user_delete",
      IF user_id \notin DOMAIN db.users THEN NotFoundRaised("delete_user", cred)
      ELSE Commit("delete_user", cred, 200, "User deleted successfully",
             ReplaceEdges("del_user_roles", "ins_user_roles",
                          {<<user_id, r>> : r \in RolesOf(db, user_id)}, {})
             \o <<[k |-> "del_user", id |-> user_id]>>))

\* DELETE /users/<id>
delete_user(db, cred, user_id) ==
    Gated(db, "delete_user", cred, "user_delete",
      IF get_jwt_identity(cred) = user_id
      THEN Reply("delete_user", cred, 400, "Cannot delete your own account")
      ELSE IF user_id \notin DOMAIN db.users THEN NotFoundRaised("delete_user", cred)
      ELSE Commit("delete_user", cred, 200, "User deleted successfully",
             ReplaceEdges("del_user_roles", "ins_user_roles",
                          {<<user_id, r>> : r \in RolesOf(db, user_id)}, {})
             \o <<[k |-> "del_user", id |-> user_id]>>))

\* POST /users/<id>/roles; role_id 0 is a missing or falsy role_id
assign_role_to_user(db, cred, user_id, role_id) ==
    Gated(db, "assign_role_to_user", cred, "user_write",
      IF user_id \notin DOMAIN db.users
      THEN NotFoundRaised("assign_role_to_user", cred)
      ELSE IF role_id = 0
      THEN Reply("assign_role_to_user", cred, 400, "role_id is required")
      ELSE IF role_id \notin DOMAIN db.roles
      THEN NotFoundRaised("assign_role_to_user", cred)
      ELSE IF role_id \notin RolesOf(db, user_id)
      THEN Commit("assign_role_to_user", cred, 200, "Role assigned to user",
             <<[k |-> "ins_user_roles", edges |-> {<<user_id, role_id>>}]>>)
      ELSE Reply("assign_role_to_user", cred, 400, "User already has this role"))

\* a remove_role_from_user that answers success whether or not the user
\* holds the role
remove_role_from_user_lenient(db, cred, user_id, role_id) ==
    Gated(db, "remove_role_from_user", cred, "user_write",
      IF user_id \notin DOMAIN db.users \/ role_id \notin DOMAIN db.roles
      THEN NotFoundRaised("remove_role_from_user", cred)
      ELSE Commit("remove_role_from_user", cred, 200, "Role removed from user",
             ReplaceEdges("del_user_roles", "ins_user_roles",
                          {<<user_id, role_id>>} \cap db.user_roles, {})))

\* DELETE /users/<id>/roles/<role_id>
remove_role_from_user(db, cred, user_id, role_id) ==
    Gated(db, "remove_role_from_user", cred, "user_write",
      IF user_id \notin DOMAIN db.users \/ role_id \notin DOMAIN db.roles
      THEN NotFoundRaised("remove_role_from_user", cred)
      ELSE IF role_id \in RolesOf(db, user_id)
      THEN Commit("remove_role_from_user", cred, 200, "Role removed from user",
             <<[k |-> "del_user_roles", edges |-> {<<user_id, role_id>>}]>>)
      ELSE Reply("remove_role_from_user", cred, 400, "User does not have this role"))

----------------------------------------------------------------------------
(* routes/role.py *)

\* GET /roles
get_roles(db, cred) ==
    Gated(db, "get_roles", cred, "role_read",
          Reply("get_roles", cred, 200, "roles"))

\* POST /roles
create_role(db, cred, data) ==
    Gated(db, "create_role", cred, "role_write",
      IF data.name = ""
      THEN Reply("create_role", cred, 400, "Role name is required")
      ELSE IF RoleByName(db, data.name) # {}
      THEN Reply("create_role", cred, 400, "Role already exists")
      ELSE Commit("create_role", cred, 201, "Role created successfully",
             <<[k |-> "ins_role", row |-> [name |-> data.name],
                permissions |-> IF IsSome(data.permission_ids)
                                THEN PermissionsIn(db, Get(data.permission_ids))
                                ELSE {}]>>))

\* GET /roles/<id>
get_role(db, cred, role_id) ==
    Gated(db, "get_role", cred, "role_read",
      IF role_id \notin DOMAIN db.roles THEN NotFoundRaised("get_role", cred)
      ELSE Reply("get_role", cred, 200, "role"))

\* PUT /roles/<id>
update_role(db, cred, role_id, data) ==
    Gated(db, "update_role", cred, "role_write",
      IF role_id \notin DOMAIN db.roles THEN NotFoundRaised("update_role", cred)
      ELSE IF data.name # "" /\ RoleByName(db, data.name) \ {role_id} # {}
      THEN Reply("update_role", cred, 400, "Role name already exists")
      ELSE LET old == {<<role_id, p>> : p \in PermsOf(db, role_id)}
               new == IF IsSome(data.permission_ids)
                      THEN {<<role_id, p>> :
                              p \in PermissionsIn(db, Get(data.permission_ids))}
                      ELSE old
           IN Commit("update_role", cred, 200, "Role updated successfully",
                (IF data.name = "" \/ data.name = db.roles[role_id].name THEN <<>>
                 ELSE <<[k |-> "upd_role", id |-> role_id,
                         set |-> [name |-> data.name]]>>)
                \o ReplaceEdges("del_role_permissions", "ins_role_permissions",
                                old, new)))

\* a delete_role that does not look at role.users
delete_role_unguarded(db, cred, role_id) ==
    Gated(db, "delete_role", cred, "role_delete",
      IF role_id \notin DOMAIN db.roles THEN NotFoundRaised("delete_role", cred)
      ELSE Commit("delete_role", cred, 200, "Role deleted successfully",
             ReplaceEdges("del_role_permissions", "ins_role_permissions",
                          {<<role_id, p>> : p \in PermsOf(db, role_id)}, {})
             \o <<[k |-> "del_role", id |-> role_id]>>))

\* DELETE /roles/<id>
delete_role(db, cred, role_id) ==
    Gated(db, "delete_role", cred, "role_delete",
      IF role_id \notin DOMAIN db.roles THEN NotFoundRaised("delete_role", cred)
      ELSE IF UsersOf(db, role_id) # {}
      THEN [Reply("delete_role", cred, 400,
                  "Cannot delete role. It is assigned to user(s)")
            EXCEPT !.count = Cardinality(UsersOf(db, role_id))]
      ELSE Commit("delete_role", cred, 200, "Role deleted successfully",
             ReplaceEdges("del_role_permissions", "ins_role_permissions",
                          {<<role_id, p>> : p \in PermsOf(db, role_id)}, {})
             \o <<[k |-> "del_role", id |-> role_id]>>))

\* POST /roles/<id>/permissions; permission_id 0 is a missing or falsy one
assign_permission_to_role(db, cred, role_id, permission_id) ==
    Gated(db, "assign_permission_to_role", cred, "role_write",
      IF role_id \notin DOMAIN db.roles
      THEN NotFoundRaised("assign_permission_to_role", cred)
      ELSE IF permission_id = 0
      THEN Reply("assign_permission_to_role", cred, 400, "permission_id is required")
      ELSE IF permission_id \notin DOMAIN db.permissions
      THEN NotFoundRaised("assign_permission_to_role", cred)
      ELSE IF permission_id \notin PermsOf(db, role_id)
      THEN Commit("assign_permission_to_role", cred, 200,
                  "Permission assigned to role",
             <<[k |-> "ins_role_permissions",
                edges |-> {<<role_id, permission_id>>}]>>)
      ELSE Reply("assign_permission_to_role", cred, 400,
                 "Role already has this permission"))

\* DELETE /roles/<id>/permissions/<permission_id>
remove_permission_from_role(db, cred, role_id, permission_id) ==
    Gated(db, "remove_permission_from_role", cred, "role_write",
      IF role_id \notin DOMAIN db.roles \/ permission_id \notin DOMAIN db.permissions
      THEN NotFoundRaised("remove_permission_from_role", cred)
      ELSE IF permission_id \in PermsOf(db, role_id)
      THEN Commit("remove_permission_from_role", cred, 200,
                  "Permission removed from role",
             <<[k |-> "del_role_permissions",
                edges |-> {<<role_id, permission_id>>}]>>)
      ELSE Reply("remove_permission_from_role", cred, 400,
                 "Role does not have this permission"))

\* GET /permissions
get_permissions_list(db, cred) ==
    Gated(db, "get_permissions", cred, "permission_read",
          Reply("get_permissions", cred, 200, "permissions"))

\* POST /permissions
create_permission(db, cred, data) ==
    Gated(db, "create_permission", cred, "permission_write",
      IF data.name = ""
      THEN Reply("create_permission", cred, 400, "Permission name is required")
      ELSE IF PermByName(db, data.name) # {}
      THEN Reply("create_permission", cred, 400, "Permission already exists")
      ELSE Commit("create_permission", cred, 201, "Permission created successfully",
             <<[k |-> "ins_permission", row |-> [name |-> data.name]]>>))

\* GET /permissions/<id>
get_permission(db, cred, permission_id) ==
    Gated(db, "get_permission", cred, "permission_read",
      IF permission_id \notin DOMAIN db.permissions
      THEN NotFoundRaised("get_permission", cred)
      ELSE Reply("get_permission", cred, 200, "permission"))

\* PUT /permissions/<id>
update_permission(db, cred, permission_id, data) ==
    Gated(db, "update_permission", cred, "permission_write",
      IF permission_id \notin DOMAIN db.permissions
      THEN NotFoundRaised("update_permission", cred)
      ELSE IF data.name # "" /\ PermByName(db, data.name) \ {permission_id} # {}
      THEN Reply("update_permission", cred, 400, "Permission name already exists")
      ELSE Commit("update_permission", cred, 200, "Permission updated successfully",
             IF data.name = "" \/ data.name = db.permissions[permission_id].name
             THEN <<>>
             ELSE <<[k |-> "upd_permission", id |-> permission_id,
                     set |-> [name |-> data.name]]>>))

\* a delete_permission that does not look at permission.roles
delete_permission_unguarded(db, cred, permission_id) ==
    Gated(db, "delete_permission", cred, "permission_delete",
      IF permission_id \notin DOMAIN db.permissions
      THEN NotFoundRaised("delete_permission", cred)
      ELSE Commit("delete_permission", cred, 200, "Permission deleted successfully",
             <<[k |-> "del_permission", id |-> permission_id]>>))

\* DELETE /permissions/<id>
delete_permission(db, cred, permission_id) ==
    Gated(db, "delete_permission", cred, "permission_delete",
      IF permission_id \notin DOMAIN db.permissions
      THEN NotFoundRaised("delete_permission", cred)
      ELSE IF RolesWith(db, permission_id) # {}
      THEN [Reply("delete_permission", cred, 400,
                  "Cannot delete permission. It is assigned to role(s)")
            EXCEPT !.count = Cardinality(RolesWith(db, permission_id))]
      ELSE Commit("delete_permission", cred, 200, "Permission deleted successfully",
             <<[k |-> "del_permission", id |-> permission_id]>>))

----------------------------------------------------------------------------
(* routes/auth.py *)

\* a register that assigns no default role
register_without_role(db, data, salt) ==
    IF MissingField(data) # ""
    THEN Reply("register", NoCred, 400, RequiredMsg(MissingField(data)))
    ELSE IF UserByUsername(db, data.username) # {}
    THEN Reply("register", NoCred, 400, "Username already exists")
    ELSE IF UserByEmail(db, data.email) # {}
    THEN Reply("register", NoCred, 400, "Email already exists")
    ELSE Commit("register", NoCred, 201, "User registered successfully",
           <<[k |-> "ins_user",
              row |-> [username |-> data.username, email |-> data.email,
                       first_name |-> IF IsSome(data.first_name)
                                      THEN Get(data.first_name) ELSE "",
                       last_name |-> IF IsSome(data.last_name)
                                     THEN Get(data.last_name) ELSE "",
                       password |-> generate_password_hash(data.password, salt),
                       is_active |-> TRUE],
              roles |-> {}]>>)

\* POST /auth/register
register(db, data, salt) ==
    IF MissingField(data) # ""
    THEN Reply("register", NoCred, 400, RequiredMsg(MissingField(data)))
    ELSE IF UserByUsername(db, data.username) # {}
    THEN Reply("register", NoCred, 400, "Username already exists")
    ELSE IF UserByEmail(db, data.email) # {}
    THEN Reply("register", NoCred, 400, "Email already exists")
    ELSE Commit("register", NoCred, 201, "User registered successfully",
           <<[k |-> "ins_user",
              row |-> [username |-> data.username, email |-> data.email,
                       first_name |-> IF IsSome(data.first_name)
                                      THEN Get(data.first_name) ELSE "",
                       last_name |-> IF IsSome(data.last_name)
                                     THEN Get(data.last_name) ELSE "",
                       password |-> generate_password_hash(data.password, salt),
                       is_active |-> TRUE],
              roles |-> RoleByName(db, "Employee")]>>)

\* the rows of (User.username == name) | (User.email == name); .first() takes
\* one of them, in an order the query does not fix
LoginMatches(db, name) == UserByUsername(db, name) \cup UserByEmail(db, name)

\* a login that does not look at is_active
login_any_account(db, data, user) ==
    IF data.username = "" \/ data.password = ""
    THEN Reply("login", NoCred, 400, "Username and password are required")
    ELSE IF user = 0 \/ ~check_password(db.users[user], data.password)
    THEN Reply("login", NoCred, 401, "Invalid credentials")
    ELSE [Reply("login", NoCred, 200, "Login successful")
          EXCEPT !.access_token = Some([sub |-> user, exp |-> now + JWT_TTL])]

\* POST /auth/login, `user` being the row .first() returned (0: none); the
\* token's jti is the next unused one
login(db, data, user) ==
    IF data.username = "" \/ data.password = ""
    THEN Reply("login", NoCred, 400, "Username and password are required")
    ELSE IF user = 0 \/ ~check_password(db.users[user], data.password)
    THEN Reply("login", NoCred, 401, "Invalid credentials")
    ELSE IF ~db.users[user].is_active
    THEN Reply("login", NoCred, 401, "Account is deactivated")
    ELSE [Reply("login", NoCred, 200, "Login successful")
          EXCEPT !.access_token = Some([sub |-> user, exp |-> now + JWT_TTL])]

\* POST /auth/logout
logout(cred) ==
    IF jwt_required("logout", cred).status # 0 THEN jwt_required("logout", cred)
    ELSE Reply("logout", cred, 200, "Successfully logged out")

\* a get_profile that refuses the token of a deactivated user
get_profile_active_only(db, cred) ==
    IF jwt_required("get_profile", cred).status # 0
    THEN jwt_required("get_profile", cred)
    ELSE IF get_jwt_identity(cred) \notin DOMAIN db.users
    THEN Reply("get_profile", cred, 404, "User not found")
    ELSE IF ~db.users[get_jwt_identity(cred)].is_active
    THEN Reply("get_profile", cred, 401, "Account is deactivated")
    ELSE Reply("get_profile", cred, 200, "user")

\* GET /auth/profile
get_profile(db, cred) ==
    IF jwt_required("get_profile", cred).status # 0
    THEN jwt_required("get_profile", cred)
    ELSE IF get_jwt_identity(cred) \notin DOMAIN db.users
    THEN Reply("get_profile", cred, 404, "User not found")
    ELSE Reply("get_profile", cred, 200, "user")

\* an update_profile that takes the username from the body as well, as
\* update_user does
update_profile_username(db, cred, data) ==
    IF jwt_required("update_profile", cred).status # 0
    THEN jwt_required("update_profile", cred)
    ELSE IF get_jwt_identity(cred) \notin DOMAIN db.users
    THEN Reply("update_profile", cred, 404, "User not found")
    ELSE IF data.email # ""
            /\ UserByEmail(db, data.email) \ {get_jwt_identity(cred)} # {}
    THEN Reply("update_profile", cred, 400, "Email already exists")
    ELSE LET old == db.users[get_jwt_identity(cred)]
             want == [f \in {"username", "first_name", "last_name", "email"} |->
                        CASE f = "first_name" -> data.first_name
                          [] f = "username" -> data.first_name
                          [] f = "last_name" -> data.last_name
                          [] f = "email" -> IF data.email # "" THEN Some(data.email)
                                            ELSE None]
             cols == {f \in DOMAIN want : IsSome(want[f]) /\ Get(want[f]) # old[f]}
         IN Commit("update_profile", cred, 200, "Profile updated successfully",
              IF cols = {} THEN <<>>
              ELSE <<[k |-> "upd_user", id |-> get_jwt_identity(cred),
                      set |-> [f \in cols |-> Get(want[f])]]>>)

\* PUT /auth/profile
update_profile(db, cred, data) ==
    IF jwt_required("update_profile", cred).status # 0
    THEN jwt_required("update_profile", cred)
    ELSE IF get_jwt_identity(cred) \notin DOMAIN db.users
    THEN Reply("update_profile", cred, 404, "User not found")
    ELSE IF data.email # ""
            /\ UserByEmail(db, data.email) \ {get_jwt_identity(cred)} # {}
    THEN Reply("update_profile", cred, 400, "Email already exists")
    ELSE LET old == db.users[get_jwt_identity(cred)]
             want == [f \in {"first_name", "last_name", "email"} |->
                        CASE f = "first_name" -> data.first_name
                          [] f = "last_name" -> data.last_name
                          [] f = "email" -> IF data.email # "" THEN Some(data.email)
                                            ELSE None]
             cols == {f \in DOMAIN want : IsSome(want[f]) /\ Get(want[f]) # old[f]}
         IN Commit("update_profile", cred, 200, "Profile updated successfully",
              IF cols = {} THEN <<>>
              ELSE <<[k |-> "upd_user", id |-> get_jwt_identity(cred),
                      set |-> [f \in cols |-> Get(want[f])]]>>)

\* a change_password that does not verify the current password
change_password_unverified(db, cred, data, salt, build) ==
    IF jwt_required("change_password", cred).status # 0
    THEN jwt_required("change_password", cred)
    ELSE IF get_jwt_identity(cred) \notin DOMAIN db.users
    THEN Reply("change_password", cred, 404, "User not found")
    ELSE IF data.current_password = "" \/ data.new_password = ""
    THEN Reply("change_password", cred, 400,
               "Current password and new password are required")
    ELSE IF hashpw_raises(data.new_password, build)
    THEN Reply("change_password", cred, 500, "ValueError")
    ELSE Commit("change_password", cred, 200, "Password changed successfully",
           <<[k |-> "upd_user", id |-> get_jwt_identity(cred),
              set |-> [password |->
                         generate_password_hash(data.new_password, salt)]]>>)

\* POST /auth/change-password
change_password(db, cred, data, salt, build) ==
    IF jwt_required("change_password", cred).status # 0
    THEN jwt_required("change_password", cred)
    ELSE IF get_jwt_identity(cred) \notin DOMAIN db.users
    THEN Reply("change_password", cred, 404, "User not found")
    ELSE IF data.current_password = "" \/ data.new_password = ""
    THEN Reply("change_password", cred, 400,
               "Current password and new password are required")
    ELSE IF hashpw_raises(data.current_password, build)
    THEN Reply("change_password", cred, 500, "ValueError")
    ELSE IF ~check_password(db.users[get_jwt_identity(cred)], data.current_password)
    THEN Reply("change_password", cred, 400, "Current password is incorrect")
    ELSE IF hashpw_raises(data.new_password, build)
    THEN Reply("change_password", cred, 500, "ValueError")
    ELSE Commit("change_password", cred, 200, "Password changed successfully",
           <<[k |-> "upd_user", id |-> get_jwt_identity(cred),
              set |-> [password |->
                         generate_password_hash(data.new_password, salt)]]>>)

\* POST /auth/forgot-password, `token` being the string secrets.choice draws
forgot_password(db, data, token) ==
    IF data.email = ""
    THEN Reply("forgot_password", NoCred, 400, "Email is required")
    ELSE IF UserByEmail(db, data.email) = {}
    THEN Reply("forgot_password", NoCred, 200,
               "If the email exists, a reset token has been generated")
    ELSE [Reply("forgot_password", NoCred, 200, "Password reset token generated")
          EXCEPT !.reset_token = Some(token)]

\* POST /auth/reset-password up to db.session.commit(), rt being reset_tokens
\* as the request reads it; token 0 is a missing token
reset_password(db, rt, data, salt, build) ==
    IF data.token = 0 \/ data.new_password = ""
    THEN Reply("reset_password", NoCred, 400, "Token and new password are required")
    ELSE IF data.token \notin DOMAIN rt
    THEN Reply("reset_password", NoCred, 400, "Invalid or expired token")
    ELSE IF rt[data.token] \notin DOMAIN db.users
    THEN Reply("reset_password", NoCred, 404, "User not found")
    ELSE IF hashpw_raises(data.new_password, build)
    THEN Reply("reset_password", NoCred, 500, "ValueError")
    ELSE Commit("reset_password", NoCred, 200, "Password reset successfully",
           <<[k |-> "upd_user", id |-> rt[data.token],
              set |-> [password |->
                         generate_password_hash(data.new_password, salt)]]>>)

----------------------------------------------------------------------------
(* seed_data.py *)

SeedUser(db, username, email, first_name, last_name, password, role_name, salt) ==
    [k |-> "ins_user",
     row |-> [username |-> username, email |-> email,
              first_name |-> first_name, last_name |-> last_name,
              password |-> generate_password_hash(password, salt),
              is_active |-> TRUE],
     roles |-> RoleByName(db, role_name)]

\* seed_admin_user
seed_admin_user_tx(db, salt) ==
    IF UserByUsername(db, "admin") # {} \/ RoleByName(db, "Admin") = {} THEN <<>>
    ELSE <<SeedUser(db, "admin", "admin@hrms.com", "System", "Administrator",
                    "admin123", "Admin", salt)>>

\* seed_sample_users
seed_sample_users_tx(db, salt) ==
    (IF RoleByName(db, "HR") # {} /\ UserByUsername(db, "hr_manager") = {}
     THEN <<SeedUser(db, "hr_manager", "hr@hrms.com", "HR", "Manager", "hr123",
                    "HR", salt)>>
     ELSE <<>>)
    \o (IF RoleByName(db, "Employee") # {} /\ UserByUsername(db, "john_doe") = {}
        THEN <<SeedUser(db, "john_doe", "john.doe@hrms.com", "John", "Doe",
                        "employee123", "Employee", salt)>>
        ELSE <<>>)

----------------------------------------------------------------------------
(* Steps: one request handled from start to finish *)

SetDB(db) ==
    /\ users' = db.users
    /\ roles' = db.roles
    /\ permissions' = db.permissions
    /\ user_roles' = db.user_roles
    /\ role_permissions' = db.role_permissions

InBounds(db) ==
    /\ DOMAIN db.users \subseteq 1..MaxUserId
    /\ DOMAIN db.roles \subseteq 1..MaxRoleId
    /\ DOMAIN db.permissions \subseteq 1..MaxPermId

\* what the client sees of a handler's result
View(out) ==
    [status |-> out.status, msg |-> out.msg, count |-> out.count,
     access_token |-> out.access_token, reset_token |-> out.reset_token]

\* an Answer that revokes the token of a successful change-password
Answer_revoking(out) ==
    LET r == ApplyTx(DB, out.tx)
    IN /\ resp' = IF r.ok THEN View(out)
                  ELSE View(Reply(out.op, out.cred, 500, "IntegrityError"))
       /\ IF r.ok THEN InBounds(r.db) /\ SetDB(r.db) ELSE UNCHANGED store
       /\ blacklisted_tokens' =
             IF r.ok /\ out.op = "change_password" /\ out.status = 200
             THEN blacklisted_tokens \cup {out.cred.jti}
             ELSE blacklisted_tokens
       /\ UNCHANGED <<tokens, resets, now>>

\* the handler's try/except around db.session.commit(): the statements are
\* committed, or rolled back and answered 500 with str(e)
Answer(out) ==
    LET r == ApplyTx(DB, out.tx)
    IN /\ resp' = IF r.ok THEN View(out)
                  ELSE View(Reply(out.op, out.cred, 500, "IntegrityError"))
       /\ IF r.ok THEN InBounds(r.db) /\ SetDB(r.db) ELSE UNCHANGED store
       /\ UNCHANGED <<tokens, blacklisted_tokens, resets, now>>

\* a request that runs alone, from its first query to its commit
Respond(out) == Answer(out) /\ UNCHANGED pending

\* create_access_token: the new token is appended to the tokens issued so far
DoLogin(data, user) ==
    LET out == login(DB, data, user)
    IN /\ IF IsSome(out.access_token)
          THEN /\ Len(tokens) < MaxTokens
               /\ tokens' = Append(tokens, Get(out.access_token))
          ELSE UNCHANGED tokens
       /\ resp' = View(out)
       /\ UNCHANGED <<store, blacklisted_tokens, resets, now, pending>>

\* a logout that keeps only the newest id in the blocklist
Logout_latest_only(cred) ==
    LET out == logout(cred)
    IN /\ IF out.status = 200
          THEN blacklisted_tokens' = {cred.jti}
          ELSE UNCHANGED blacklisted_tokens
       /\ resp' = View(out)
       /\ UNCHANGED <<store, tokens, resets, now, pending>>

\* blacklisted_tokens.add(jti)
Logout(cred) ==
    LET out == logout(cred)
    IN /\ IF out.status = 200
          THEN blacklisted_tokens' = blacklisted_tokens \cup {cred.jti}
          ELSE UNCHANGED blacklisted_tokens
       /\ resp' = View(out)
       /\ UNCHANGED <<store, tokens, resets, now, pending>>

\* seed_data.py, seed_admin_user(), run against the database
SeedAdminUser ==
    \E salt \in Salts :
        LET r == ApplyTx(DB, seed_admin_user_tx(DB, salt))
        IN /\ r.ok /\ r.db # DB /\ InBounds(r.db) /\ SetDB(r.db)
           /\ UNCHANGED <<tokens, blacklisted_tokens, resets, now, resp, pending>>

\* time passes, one token lifetime at a step
Tick ==
    /\ now < MaxTicks * JWT_TTL
    /\ now' = now + JWT_TTL
    /\ UNCHANGED <<store, tokens, blacklisted_tokens, resets, resp, pending>>

\* forgot_password: reset_tokens[token] = user.id for the row of the email;
\* the token is the next string secrets.choice generates, none of them
\* generated twice
DoForgotPassword(data) ==
    LET token == secrets_drawn + 1
        out == forgot_password(DB, data, token)
    IN /\ IF IsSome(out.reset_token)
          THEN /\ secrets_drawn < MaxResetTokens
               /\ secrets_drawn' = token
               /\ reset_tokens' =
                     Put(reset_tokens, token,
                         CHOOSE u \in UserByEmail(DB, data.email) : TRUE)
          ELSE UNCHANGED resets
       /\ resp' = View(out)
       /\ UNCHANGED <<store, tokens, blacklisted_tokens, now, pending>>

\* reset_password from db.session.commit() on: the commit, then
\* del reset_tokens[token], which raises KeyError when the key is gone and
\* is answered 500 by the except branch, the commit being done
CommitReset(data, out) ==
    LET r == ApplyTx(DB, out.tx)
    IN /\ IF out.status # 200
          THEN resp' = View(out) /\ UNCHANGED <<store, reset_tokens>>
          ELSE IF ~r.ok
          THEN /\ resp' = View(Reply(out.op, out.cred, 500, "IntegrityError"))
               /\ UNCHANGED <<store, reset_tokens>>
          ELSE /\ InBounds(r.db) /\ SetDB(r.db)
               /\ IF data.token \in DOMAIN reset_tokens
                  THEN /\ reset_tokens' = Drop(reset_tokens, data.token)
                       /\ resp' = View(out)
                  ELSE /\ UNCHANGED reset_tokens
                       /\ resp' = View(Reply(out.op, out.cred, 500, "KeyError"))
       /\ UNCHANGED <<tokens, blacklisted_tokens, secrets_drawn, now>>

\* a reset_password request that runs alone
DoResetPassword(data, salt, build) ==
    /\ CommitReset(data, reset_password(DB, reset_tokens, data, salt, build))
    /\ UNCHANGED pending

\* the module is imported: db.create_all(), init_database(), empty blocklist
\* and empty reset_tokens
Init ==
    /\ users = init_database(EmptyDB).users
    /\ roles = init_database(EmptyDB).roles
    /\ permissions = init_database(EmptyDB).permissions
    /\ user_roles = init_database(EmptyDB).user_roles
    /\ role_permissions = init_database(EmptyDB).role_permissions
    /\ tokens = <<>>
    /\ blacklisted_tokens = {}
    /\ reset_tokens = <<>>
    /\ secrets_drawn = 0
    /\ now = 0
    /\ resp = View(Reply("", NoCred, 0, ""))
    /\ pending = <<>>

----------------------------------------------------------------------------
(* Spec: sessions and the permission gate in front of every route of       *)
(* /users, /roles and /permissions                                         *)

\* the credentials a client can present
Creds == {NoCred, Forged(1)} \cup {Jwt(j) : j \in 1..Len(tokens)}

UserBody(username, email, password, is_active, role_ids) ==
    [username |-> username, email |-> email, password |-> password,
     first_name |-> None, last_name |-> None,
     is_active |-> is_active, role_ids |-> role_ids]

\* the body of PUT /auth/profile
ProfileBody(first_name, last_name, email) ==
    [first_name |-> first_name, last_name |-> last_name, email |-> email]

NoChange == UserBody("", "", "", None, None)

Alice == UserBody("alice", "alice@hrms.com", "alice123", None, None)

LoginBodies ==
    {[username |-> "admin", password |-> "admin123"],
     [username |-> "alice@hrms.com", password |-> "alice123"],
     [username |-> "alice", password |-> "admin123"]}

\* .first() of the login query: any matching row, 0 when there is none
FirstMatch(name) ==
    IF LoginMatches(DB, name) = {} THEN {0} ELSE LoginMatches(DB, name)

Register == \E salt \in Salts : Respond(register(DB, Alice, salt))
Login == \E data \in LoginBodies : \E user \in FirstMatch(data.username) : DoLogin(data, user)
GetProfile(cred) == Respond(get_profile(DB, cred))

GetUsers(cred) == Respond(get_users(DB, cred))
CreateUser(cred) ==
    \E salt \in Salts :
        Respond(create_user(DB, cred, [Alice EXCEPT !.role_ids = Some({3})], salt))
GetUser(cred) == Respond(get_user(DB, cred, 2))
UpdateUser(cred) ==
    \E active \in BOOLEAN, salt \in Salts :
        Respond(update_user(DB, cred, 2,
                            [NoChange EXCEPT !.is_active = Some(active)], salt))
DeleteUser(cred) == Respond(delete_user(DB, cred, 2))
AssignRoleToUser(cred) == Respond(assign_role_to_user(DB, cred, 2, 3))
RemoveRoleFromUser(cred) == Respond(remove_role_from_user(DB, cred, 2, 3))

GetRoles(cred) == Respond(get_roles(DB, cred))
CreateRole(cred) ==
    Respond(create_role(DB, cred, [name |-> "Y", permission_ids |-> Some({5})]))
GetRole(cred) == Respond(get_role(DB, cred, 4))
UpdateRole(cred) ==
    Respond(update_role(DB, cred, 4,
                        [name |-> "", permission_ids |-> Some({})]))
DeleteRole(cred) == Respond(delete_role(DB, cred, 4))
AssignPermissionToRole(cred) ==
    Respond(assign_permission_to_role(DB, cred, 4, 5))
RemovePermissionFromRole(cred) ==
    Respond(remove_permission_from_role(DB, cred, 4, 5))

GetPermissions(cred) == Respond(get_permissions_list(DB, cred))
CreatePermission(cred) == Respond(create_permission(DB, cred, [name |-> "x"]))
GetPermission(cred) == Respond(get_permission(DB, cred, 10))
UpdatePermission(cred) ==
    Respond(update_permission(DB, cred, 10, [name |-> "user_read"]))
DeletePermission(cred) == Respond(delete_permission(DB, cred, 10))

Next ==
    \/ SeedAdminUser
    \/ Register
    \/ Login
    \/ Tick
    \/ \E cred \in Creds : Logout(cred)
    \/ \E cred \in Creds : GetProfile(cred)
    \/ \E cred \in Creds : GetUsers(cred)
    \/ \E cred \in Creds : CreateUser(cred)
    \/ \E cred \in Creds : GetUser(cred)
    \/ \E cred \in Creds : UpdateUser(cred)
    \/ \E cred \in Creds : DeleteUser(cred)
    \/ \E cred \in Creds : AssignRoleToUser(cred)
    \/ \E cred \in Creds : RemoveRoleFromUser(cred)
    \/ \E cred \in Creds : GetRoles(cred)
    \/ \E cred \in Creds : CreateRole(cred)
    \/ \E cred \in Creds : GetRole(cred)
    \/ \E cred \in Creds : UpdateRole(cred)
    \/ \E cred \in Creds : DeleteRole(cred)
    \/ \E cred \in Creds : AssignPermissionToRole(cred)
    \/ \E cred \in Creds : RemovePermissionFromRole(cred)
    \/ \E cred \in Creds : GetPermissions(cred)
    \/ \E cred \in Creds : CreatePermission(cred)
    \/ \E cred \in Creds : GetPermission(cred)
    \/ \E cred \in Creds : UpdatePermission(cred)
    \/ \E cred \in Creds : DeletePermission(cred)

Spec == Init /\ [][Next]_vars

----------------------------------------------------------------------------
(* SpecGraph: the RBAC graph under the association, update and deletion    *)
(* routes, for two users, a fourth role and a tenth permission             *)

NextGraph ==
    \/ SeedAdminUser
    \/ Register
    \/ Login
    \/ \E cred \in Creds : Respond(get_roles(DB, cred))
    \/ \E cred \in Creds :
          Respond(update_user(DB, cred, 2,
                  [NoChange EXCEPT !.role_ids = Some({3, 4})], "s1"))
    \/ \E cred \in Creds : Respond(delete_user(DB, cred, 2))
    \/ \E cred \in Creds, user_id \in 1..MaxUserId :
          Respond(assign_role_to_user(DB, cred, user_id, 4))
    \/ \E cred \in Creds, user_id \in 1..MaxUserId :
          Respond(remove_role_from_user(DB, cred, user_id, 4))
    \/ \E cred \in Creds :
          Respond(create_role(DB, cred,
                  [name |-> "Y", permission_ids |-> Some({5, 10})]))
    \/ \E cred \in Creds :
          Respond(update_role(DB, cred, 4,
                  [name |-> "", permission_ids |-> Some({5})]))
    \/ \E cred \in Creds : Respond(delete_role(DB, cred, 4))
    \/ \E cred \in Creds, permission_id \in {5, 10} :
          Respond(assign_permission_to_role(DB, cred, 4, permission_id))
    \/ \E cred \in Creds, permission_id \in {5, 10} :
          Respond(remove_permission_from_role(DB, cred, 4, permission_id))
    \/ \E cred \in Creds : Respond(create_permission(DB, cred, [name |-> "x"]))
    \/ \E cred \in Creds : Respond(delete_permission(DB, cred, 10))

SpecGraph == Init /\ [][NextGraph]_vars

----------------------------------------------------------------------------
(* SpecRace: requests that overlap.  A request runs its queries and checks  *)
(* on the database as committed at that moment (Begin) and commits later   *)
(* (Finish); other requests begin and commit in between.                   *)

MaxPending == 2

\* the handler of a request, run on db
Handle(db, req) ==
    CASE req.op = "register" ->
           register(db, UserBody(req.name, req.email, "pw", None, None), "s1")
      [] req.op = "create_user" ->
           create_user(db, req.cred,
                       UserBody(req.name, req.email, "pw", None, None), "s1")
      [] req.op = "update_user" ->
           update_user(db, req.cred, req.id,
                       UserBody(req.name, req.email, "", None, None), "s1")
      [] req.op = "update_profile" -> update_profile(db, req.cred, ProfileBody(None, None, req.email))
      [] req.op = "create_role" ->
           create_role(db, req.cred, [name |-> req.name, permission_ids |-> None])
      [] req.op = "update_role" ->
           update_role(db, req.cred, req.id,
                       [name |-> req.name, permission_ids |-> None])
      [] req.op = "create_permission" ->
           create_permission(db, req.cred, [name |-> req.name])
      [] req.op = "update_permission" ->
           update_permission(db, req.cred, req.id, [name |-> req.name])
      [] req.op = "delete_user" -> delete_user(db, req.cred, req.id)
      [] req.op = "assign_role_to_user" ->
           assign_role_to_user(db, req.cred, req.id, req.other)
      [] req.op = "remove_role_from_user" ->
           remove_role_from_user(db, req.cred, req.id, req.other)
      [] req.op = "update_user.role_ids" ->
           update_user(db, req.cred, req.id,
                       [NoChange EXCEPT !.role_ids = Some({req.other})], "s1")
      [] req.op = "delete_role" -> delete_role(db, req.cred, req.id)
      [] req.op = "assign_permission_to_role" ->
           assign_permission_to_role(db, req.cred, req.id, req.other)
      [] req.op = "remove_permission_from_role" ->
           remove_permission_from_role(db, req.cred, req.id, req.other)
      [] req.op = "update_role.permission_ids" ->
           update_role(db, req.cred, req.id,
                       [name |-> "", permission_ids |-> Some({req.other})])
      [] req.op = "delete_permission" -> delete_permission(db, req.cred, req.id)

Request(op, cred, id, name, email) ==
    [op |-> op, cred |-> cred, id |-> id, name |-> name, email |-> email]

\* the requests that overlap: each aims at the name "alice", "Y" or "x", or at
\* the email alice@hrms.com
Requests ==
    {Request("register", NoCred, 0, "alice", "alice@hrms.com")}
    \cup UNION {
        {Request("create_user", Jwt(jti), 0, "alice", "alice@hrms.com"),
         Request("update_user", Jwt(jti), 1, "alice", ""),
         Request("update_profile", Jwt(jti), 0, "", "alice@hrms.com"),
         Request("create_role", Jwt(jti), 0, "Y", ""),
         Request("update_role", Jwt(jti), 3, "Y", ""),
         Request("create_permission", Jwt(jti), 0, "x", ""),
         Request("update_permission", Jwt(jti), 9, "x", "")}
        : jti \in 1..Len(tokens)}

\* the request runs up to, not including, db.session.commit()
Begin(req) ==
    /\ Len(pending) < MaxPending
    /\ pending' = Append(pending, [req |-> req, out |-> Handle(DB, req)])
    /\ UNCHANGED <<store, tokens, blacklisted_tokens, resets, now, resp>>

\* the request commits, or answers without committing, and is over
Finish(i) ==
    /\ Answer(pending[i].out)
    /\ pending' = SubSeq(pending, 1, i - 1) \o SubSeq(pending, i + 1, Len(pending))

\* the administrator logs in, once
LoginAdmin ==
    /\ tokens = <<>>
    /\ \E user \in FirstMatch("admin") :
          DoLogin([username |-> "admin", password |-> "admin123"], user)

NextRace ==
    \/ SeedAdminUser
    \/ LoginAdmin
    \/ \E req \in Requests : Begin(req)
    \/ \E i \in 1..Len(pending) : Finish(i)

SpecRace == Init /\ [][NextRace]_vars

----------------------------------------------------------------------------
(* SpecAccount: passwords, reset tokens and the deletion of users, the     *)
(* requests running one at a time                                          *)

PasswordBody(current_password, new_password) ==
    [current_password |-> current_password, new_password |-> new_password]

ResetBody(token, new_password) ==
    [token |-> token, new_password |-> new_password]

\* the passwords the requests carry
Passwords == {"admin123", "alice123", "new1", "new2", "p72+a", "p72+b"}

Emails == {"alice@hrms.com", "nobody@hrms.com"}

ChangePassword(cred) ==
    \E current \in {"alice123", "p72+b"}, new \in {"alice123", "p72+a"},
       build \in BcryptBuilds :
        Respond(change_password(DB, cred, PasswordBody(current, new), "s1", build))

ForgotPassword == \E email \in Emails : DoForgotPassword([email |-> email])

ResetPassword ==
    \E token \in 1..MaxResetTokens, new \in {"new1", "p72+a"},
       build \in BcryptBuilds :
        DoResetPassword(ResetBody(token, new), "s1", build)

SetUserPassword(cred) ==
    Respond(update_user(DB, cred, 2, [NoChange EXCEPT !.password = "new1"], "s1"))

DeleteAnyUser(cred) ==
    \E user_id \in 1..MaxUserId : Respond(delete_user(DB, cred, user_id))

NextAccount ==
    \/ SeedAdminUser
    \/ Register
    \/ Login
    \/ ForgotPassword
    \/ ResetPassword
    \/ \E cred \in Creds : ChangePassword(cred)
    \/ \E cred \in Creds : SetUserPassword(cred)
    \/ \E cred \in Creds : DeleteAnyUser(cred)

SpecAccount == Init /\ [][NextAccount]_vars

----------------------------------------------------------------------------
(* SpecReset: reset_password and logout requests that overlap.  A request  *)
(* reads reset_tokens, or has its token verified, at one moment (Begin)    *)
(* and commits, or adds to the blocklist, at a later one (Finish).         *)

AccountRequest(op, cred, token, new_password) ==
    [op |-> op, cred |-> cred, token |-> token, new_password |-> new_password]

AccountRequests ==
    {AccountRequest("logout", Jwt(jti), 0, "") : jti \in 1..Len(tokens)}
    \cup {AccountRequest("reset_password", NoCred, token, new) :
            token \in 1..MaxResetTokens, new \in {"new1", "new2"}}

\* the request up to its commit, or up to blacklisted_tokens.add
BeginAccount(req) ==
    /\ Len(pending) < MaxPending
    /\ \E build \in BcryptBuilds :
          pending' = Append(pending,
              [req |-> req,
               out |-> IF req.op = "logout" THEN logout(req.cred)
                       ELSE reset_password(DB, reset_tokens,
                                ResetBody(req.token, req.new_password),
                                "s1", build)])
    /\ UNCHANGED <<store, tokens, blacklisted_tokens, resets, now, resp>>

\* a blocklist that refuses an id it already holds: the second add of an id
\* is answered 500
FinishAccount_add_once(i) ==
    /\ IF pending[i].req.op = "logout"
       THEN /\ IF pending[i].out.status = 200
                  /\ pending[i].req.cred.jti \notin blacklisted_tokens
               THEN /\ blacklisted_tokens' =
                          blacklisted_tokens \cup {pending[i].req.cred.jti}
                    /\ resp' = View(pending[i].out)
               ELSE /\ UNCHANGED blacklisted_tokens
                    /\ resp' = IF pending[i].out.status = 200
                               THEN View(Reply("logout", pending[i].req.cred,
                                               500, "KeyError"))
                               ELSE View(pending[i].out)
            /\ UNCHANGED <<store, tokens, resets, now>>
       ELSE CommitReset(pending[i].req, pending[i].out)
    /\ pending' = SubSeq(pending, 1, i - 1) \o SubSeq(pending, i + 1, Len(pending))

\* the rest of the request: blacklisted_tokens.add(jti), or the commit and
\* the del of reset_password
FinishAccount(i) ==
    /\ IF pending[i].req.op = "logout"
       THEN /\ IF pending[i].out.status = 200
               THEN blacklisted_tokens' =
                        blacklisted_tokens \cup {pending[i].req.cred.jti}
               ELSE UNCHANGED blacklisted_tokens
            /\ resp' = View(pending[i].out)
            /\ UNCHANGED <<store, tokens, resets, now>>
       ELSE CommitReset(pending[i].req, pending[i].out)
    /\ pending' = SubSeq(pending, 1, i - 1) \o SubSeq(pending, i + 1, Len(pending))

LoginAlice ==
    \E user \in FirstMatch("alice") :
        DoLogin([username |-> "alice", password |-> "alice123"], user)

NextReset ==
    \/ Register
    \/ LoginAlice
    \/ ForgotPassword
    \/ \E req \in AccountRequests : BeginAccount(req)
    \/ \E i \in 1..Len(pending) : FinishAccount(i)

SpecReset == Init /\ [][NextReset]_vars

----------------------------------------------------------------------------
(* SpecScenario: the administrator builds a permission x and a role Y and  *)
(* hands Y out; alice registers, logs in and posts a role Z of her own     *)

Zoe == UserBody("zoe", "zoe@hrms.com", "zoe123", None, None)

RoleY(permission_ids) == [name |-> "Y", permission_ids |-> Some(permission_ids)]

RoleZ == [name |-> "Z", permission_ids |-> None]

\* the tokens issued to the user named alice
AliceCreds ==
    {Jwt(jti) : jti \in {j \in 1..Len(tokens) :
                            tokens[j].sub \in UserByUsername(DB, "alice")}}

CreateZoe(cred) == Respond(create_user(DB, cred, Zoe, "s1"))

CreateRoleY(cred) ==
    \E permission_ids \in {{10}, {1, 10}} :
        Respond(create_role(DB, cred, RoleY(permission_ids)))

AssignRoleY(cred) == Respond(assign_role_to_user(DB, cred, 2, 4))

GrantRoleWrite(cred) == Respond(assign_permission_to_role(DB, cred, 3, 5))

CreateRoleZ(cred) == Respond(create_role(DB, cred, RoleZ))

NextScenario ==
    \/ SeedAdminUser
    \/ Register
    \/ Login
    \/ \E cred \in Creds : GetProfile(cred)
    \/ \E cred \in Creds : CreatePermission(cred)
    \/ \E cred \in Creds : CreateZoe(cred)
    \/ \E cred \in Creds : CreateRoleY(cred)
    \/ \E cred \in Creds : AssignRoleY(cred)
    \/ \E cred \in Creds : GrantRoleWrite(cred)
    \/ \E cred \in AliceCreds : CreateRoleZ(cred)

SpecScenario == Init /\ [][NextScenario]_vars

----------------------------------------------------------------------------
(* SpecGraphRace: assign, remove, update and delete requests on the user 2, *)
(* the role 4 and the permission 10 that overlap, each reading the         *)
(* database when it begins and committing when it finishes                 *)

\* the requests that overlap: `id` is the entity of the URL, `other` the role
\* or permission of the body or of the URL's second id (0: none)
GraphRequests ==
    UNION {
        {[op |-> "delete_user", cred |-> Jwt(jti), id |-> 2, other |-> 0],
         [op |-> "assign_role_to_user", cred |-> Jwt(jti), id |-> 2, other |-> 4],
         [op |-> "remove_role_from_user", cred |-> Jwt(jti), id |-> 2, other |-> 4],
         [op |-> "update_user.role_ids", cred |-> Jwt(jti), id |-> 2, other |-> 4],
         [op |-> "delete_role", cred |-> Jwt(jti), id |-> 4, other |-> 0],
         [op |-> "assign_permission_to_role", cred |-> Jwt(jti), id |-> 4,
          other |-> 10],
         [op |-> "remove_permission_from_role", cred |-> Jwt(jti), id |-> 4,
          other |-> 10],
         [op |-> "update_role.permission_ids", cred |-> Jwt(jti), id |-> 4,
          other |-> 10],
         [op |-> "delete_permission", cred |-> Jwt(jti), id |-> 10, other |-> 0]}
        : jti \in 1..Len(tokens)}

NextGraphRace ==
    \/ SeedAdminUser
    \/ LoginAdmin
    \/ Register
    \/ \E jti \in 1..Len(tokens) :
          Respond(create_role(DB, Jwt(jti), [name |-> "Y", permission_ids |-> None]))
    \/ \E jti \in 1..Len(tokens) :
          Respond(create_permission(DB, Jwt(jti), [name |-> "x"]))
    \/ \E req \in GraphRequests : Begin(req)
    \/ \E i \in 1..Len(pending) : Finish(i)

SpecGraphRace == Init /\ [][NextGraphRace]_vars

----------------------------------------------------------------------------
(* SpecSession: the sessions of users who change or reset their password,  *)
(* are deactivated or deleted, or log out; zoe registers besides alice     *)

NextSession ==
    \/ NextAccount
    \/ Respond(register(DB, Zoe, "s1"))
    \/ \E cred \in Creds : Logout(cred)
    \/ \E cred \in Creds : GetProfile(cred)
    \/ \E cred \in Creds : GetUsers(cred)
    \/ \E cred \in Creds : UpdateUser(cred)

SpecSession == Init /\ [][NextSession]_vars

----------------------------------------------------------------------------
(* SpecPerms: the routes that write role memberships, permission sets and  *)
(* permission names, next to the auth endpoints, one request at a time     *)

NextPerms ==
    \/ SeedAdminUser
    \/ Register
    \/ Login
    \/ secrets_drawn = 0 /\ ForgotPassword
    \/ DoResetPassword(ResetBody(1, "new1"), "s1", "truncate")
    \/ \E cred \in Creds : GetProfile(cred)
    \/ \E cred \in Creds :
          Respond(update_profile(DB, cred,
                                 ProfileBody(Some("Al"), None, "al@hrms.com")))
    \/ \E cred \in Creds :
          Respond(update_user(DB, cred, 2,
                              [NoChange EXCEPT !.role_ids = Some({2})], "s1"))
    \/ \E cred \in Creds : GrantRoleWrite(cred)
    \/ \E cred \in Creds :
          Respond(update_role(DB, cred, 3,
                              [name |-> "", permission_ids |-> Some({1, 4})]))
    \/ \E cred \in Creds :
          Respond(update_permission(DB, cred, 1, [name |-> "user_view"]))

SpecPerms == Init /\ [][NextPerms]_vars

----------------------------------------------------------------------------
(* SpecRestart: the default roles and permissions are changed through the  *)
(* routes, and the process is started again on the same database file      *)

\* the module is imported again: db.create_all() finds the tables,
\* init_database() runs on the database as it is, blacklisted_tokens and
\* reset_tokens start empty and the requests in flight are gone
Restart ==
    /\ InBounds(init_database(DB))
    /\ SetDB(init_database(DB))
    /\ blacklisted_tokens' = {}
    /\ reset_tokens' = <<>>
    /\ pending' = <<>>
    /\ UNCHANGED <<tokens, secrets_drawn, now, resp>>

NextRestart ==
    \/ SeedAdminUser
    \/ LoginAdmin
    \/ Register
    \/ Restart
    \/ \E cred \in Creds : GrantRoleWrite(cred)
    \/ \E cred \in Creds : CreatePermission(cred)
    \/ \E cred \in Creds : Respond(remove_permission_from_role(DB, cred, 1, 7))
    \/ \E cred \in Creds : Respond(delete_permission(DB, cred, 7))
    \/ \E cred \in Creds :
          Respond(update_role(DB, cred, 3,
                              [name |-> "Staff", permission_ids |-> None]))
    \/ \E cred \in Creds :
          Respond(update_permission(DB, cred, 1, [name |-> "user_view"]))

SpecRestart == Init /\ [][NextRestart]_vars

----------------------------------------------------------------------------
(* Properties *)

\* the RBAC graph read as a relation: some role among u's roles has a
\* permission named P
Holds(u, P) ==
    \E r \in DOMAIN roles, p \in DOMAIN permissions :
        /\ <<u, r>> \in user_roles
        /\ <<r, p>> \in role_permissions
        /\ permissions[p].name = P

\* the names a check can ask for: those of the permissions, and one of none
PermissionNames == {permissions[p].name : p \in DOMAIN permissions} \cup {"none"}

\* cred is a token this server issued, not yet expired and not revoked
TokenValid(cred) ==
    /\ cred.kind = "jwt"
    /\ cred.jti \in 1..Len(tokens)
    /\ now < tokens[cred.jti].exp
    /\ cred.jti \notin blacklisted_tokens

\* the token of cred is valid and its user exists
Authenticated(cred) == TokenValid(cred) /\ tokens[cred.jti].sub \in DOMAIN users

\* this step does not answer the authenticated caller by the graph as it is
\* before the step: Forbidden although the graph gives the caller
\* permission_name, or not Forbidden although it does not
Stale(cred, permission_name) ==
    /\ Authenticated(cred)
    /\ resp'.status = 403 <=> Holds(tokens[cred.jti].sub, permission_name)

\* C1: in every reachable state has_permission(U, P) is true iff some role
\* among U's roles has a permission named P, and every gated request is
\* decided on the graph as the last committed request left it: after an
\* assign, a remove or an update, no step of a gated route gives a stale
\* answer.
C1_HasPermissionIsTheGraph ==
    /\ [](\A u \in DOMAIN users, P \in PermissionNames :
            has_permission(DB, u, P) <=> Holds(u, P))
    /\ [][\A cred \in Creds :
            /\ Stale(cred, "role_read") => ~Respond(get_roles(DB, cred))
            /\ Stale(cred, "role_delete") => ~Respond(delete_role(DB, cred, 4))
            /\ Stale(cred, "permission_write")
                  => ~Respond(create_permission(DB, cred, [name |-> "x"]))
            /\ Stale(cred, "user_write")
                  => \A user_id \in 1..MaxUserId :
                        ~Respond(assign_role_to_user(DB, cred, user_id, 4))
            /\ Stale(cred, "role_write")
                  => \A permission_id \in {5, 10} :
                        ~Respond(assign_permission_to_role(
                                     DB, cred, 4, permission_id))]_vars

\* a user without the Admin role holds role_write through a second role that
\* was assigned to them, and the request they made with it was let through
C1_Witness ==
    \E u \in DOMAIN users :
        /\ {<<u, 3>>, <<u, 4>>} \subseteq user_roles
        /\ <<u, 1>> \notin user_roles
        /\ ~Holds(u, "user_write")
        /\ has_permission(DB, u, "role_write")
        /\ resp.msg = "Role already has this permission"

\* the answers of jwt_required and of require_permission
GateAnswers ==
    {"Missing Authorization Header", "Signature verification failed",
     "Token has expired", "Token has been revoked", "User not found",
     "Insufficient permissions"}

\* the caller presents a valid token of an existing user who holds
\* permission_name
Authorized(cred, permission_name) ==
    Authenticated(cred) /\ Holds(tokens[cred.jti].sub, permission_name)

\* out, the outcome of a request made by cred on a route of permission_name,
\* is what the chokepoint allows: the handler's own answer, and any change to
\* the store, only for an authorized caller; Forbidden and no change for an
\* authenticated caller without the permission
Guarded(cred, permission_name, out) ==
    /\ (out.msg \notin GateAnswers \/ ApplyTx(DB, out.tx) # Done(DB))
          => Authorized(cred, permission_name)
    /\ (Authenticated(cred) /\ ~Holds(tokens[cred.jti].sub, permission_name))
          => out.status = 403 /\ ApplyTx(DB, out.tx) = Done(DB)

\* C3: on every route of /users, /roles and /permissions the handler's logic
\* runs, and the store changes, only if the presented token is valid, its
\* user exists and holds the permission of the route; an authenticated caller
\* without it is answered 403 and the store is unchanged.  Stated of the
\* outcome of every request a client can make in a reachable state, on
\* each of the seventeen routes.
C3_Chokepoint ==
    \A cred \in Creds :
        /\ Guarded(cred, "user_read", get_users(DB, cred))
        /\ Guarded(cred, "user_write",
                   create_user(DB, cred, [Alice EXCEPT !.role_ids = Some({3})], "s1"))
        /\ \A user_id \in 1..MaxUserId :
              /\ Guarded(cred, "user_read", get_user(DB, cred, user_id))
              /\ Guarded(cred, "user_delete", delete_user(DB, cred, user_id))
              /\ Guarded(cred, "user_write",
                         update_user(DB, cred, user_id,
                                     [NoChange EXCEPT !.is_active = Some(FALSE)],
                                     "s1"))
              /\ Guarded(cred, "user_write",
                         assign_role_to_user(DB, cred, user_id, 3))
              /\ Guarded(cred, "user_write",
                         remove_role_from_user(DB, cred, user_id, 3))
        /\ Guarded(cred, "role_read", get_roles(DB, cred))
        /\ Guarded(cred, "role_write",
                   create_role(DB, cred, [name |-> "Y", permission_ids |-> Some({5})]))
        /\ Guarded(cred, "role_read", get_role(DB, cred, 4))
        /\ Guarded(cred, "role_write",
                   update_role(DB, cred, 4,
                               [name |-> "", permission_ids |-> Some({})]))
        /\ Guarded(cred, "role_delete", delete_role(DB, cred, 4))
        /\ Guarded(cred, "role_write",
                   assign_permission_to_role(DB, cred, 4, 5))
        /\ Guarded(cred, "role_write",
                   remove_permission_from_role(DB, cred, 4, 5))
        /\ Guarded(cred, "permission_read", get_permissions_list(DB, cred))
        /\ Guarded(cred, "permission_write",
                   create_permission(DB, cred, [name |-> "x"]))
        /\ Guarded(cred, "permission_read", get_permission(DB, cred, 10))
        /\ Guarded(cred, "permission_write",
                   update_permission(DB, cred, 10, [name |-> "user_read"]))
        /\ Guarded(cred, "permission_delete",
                   delete_permission(DB, cred, 10))

\* an authenticated caller without user_write has just been refused
C3_Witness ==
    /\ resp.status = 403
    /\ resp.msg = "Insufficient permissions"
    /\ \E cred \in Creds :
          /\ Authenticated(cred)
          /\ Holds(tokens[cred.jti].sub, "user_read")
          /\ ~Holds(tokens[cred.jti].sub, "user_write")

\* what a request carrying token jti is told, seen on GET /auth/profile
Verdict(jti) == get_profile(DB, Jwt(jti)).msg

\* a step that adds a token is a successful login: the token is new, is bound
\* to the user who logged in, expires JWT_TTL hours later and verifies to that
\* user right after the step
Issue ==
    tokens' # tokens =>
        \E jti \in 1..MaxTokens + 1, data \in LoginBodies :
            /\ jti = Len(tokens) + 1
            /\ tokens' = Append(tokens, tokens'[jti])
            /\ tokens'[jti].exp = now + JWT_TTL
            /\ resp'.status = 200
            /\ resp'.access_token = Some(tokens'[jti])
            /\ DoLogin(data, tokens'[jti].sub)
            /\ verify_jwt(Jwt(jti))' = "ok"
            /\ get_jwt_identity(Jwt(jti))' = tokens'[jti].sub
            /\ Verdict(jti)' = "user"

\* a step that changes the revocation set is a successful logout that adds
\* the id of the presented token, and nothing is ever taken out of the set
Revoke ==
    blacklisted_tokens' # blacklisted_tokens =>
        \E cred \in Creds :
            /\ TokenValid(cred)
            /\ Logout(cred)
            /\ resp'.status = 200
            /\ blacklisted_tokens' = blacklisted_tokens \cup {cred.jti}

\* C2 as stated: a token verifies to its user right after login; once its id
\* is in the revocation set every verification fails as Revoked; once
\* now >= expiresAt every verification fails as Expired.
C2_AsStated ==
    /\ [][Issue /\ Revoke]_vars
    /\ [](\A jti \in 1..Len(tokens) :
            /\ jti \in blacklisted_tokens
                  => Verdict(jti) = "Token has been revoked"
            /\ now >= tokens[jti].exp => Verdict(jti) = "Token has expired")

\* C2, amended: a token verifies to its user right after login; once its id
\* is in the revocation set every verification fails, as Revoked while
\* now < expiresAt and as Expired from then on; once now >= expiresAt every
\* verification fails as Expired, revoked or not.
C2_TokenLifecycle ==
    /\ [][Issue /\ Revoke]_vars
    /\ [](\A jti \in 1..Len(tokens) :
            /\ (jti \in blacklisted_tokens /\ now < tokens[jti].exp)
                  => Verdict(jti) = "Token has been revoked"
            /\ now >= tokens[jti].exp => Verdict(jti) = "Token has expired")

\* a token that was revoked by logout and has since expired
C2_Witness ==
    \E jti \in 1..Len(tokens) :
        /\ jti \in blacklisted_tokens
        /\ now >= tokens[jti].exp
        /\ resp.msg = "Token has expired"

\* C4: when the token verifies but its user no longer exists, the gate
\* answers Unauthenticated (401) and the handler is not run.
C4_MissingUserIsUnauthenticated ==
    \A cred \in Creds :
        (TokenValid(cred) /\ tokens[cred.jti].sub \notin DOMAIN users)
            => /\ get_users(DB, cred).status = 401
               /\ delete_permission(DB, cred, 10).status = 401
               /\ get_users(DB, cred).tx = <<>>
               /\ delete_permission(DB, cred, 10).tx = <<>>

\* C5: login hands out a token only to the account its lookup resolved when
\* the password matches and is_active is true; a matching password on an
\* inactive account is answered 401 'Account is deactivated', an unknown name
\* or a wrong password 401 'Invalid credentials', both without a token; and
\* no other step adds a token.
C5_LoginPolicy ==
    /\ [][tokens' # tokens
            => \E data \in LoginBodies, user \in DOMAIN users :
                 /\ DoLogin(data, user)
                 /\ users[user].is_active
                 /\ check_password(users[user], data.password)]_vars
    /\ [](\A data \in LoginBodies : \A user \in FirstMatch(data.username) :
            LET out == login(DB, data, user)
                known == user # 0 /\ check_password(users[user], data.password)
            IN /\ IsSome(out.access_token)
                     => /\ known /\ users[user].is_active
                        /\ Get(out.access_token).sub = user
                        /\ out.status = 200
               /\ (known /\ ~users[user].is_active)
                     => /\ out.status = 401
                        /\ out.msg = "Account is deactivated"
                        /\ out.access_token = None
               /\ ~known
                     => /\ out.status = 401
                        /\ out.msg = "Invalid credentials"
                        /\ out.access_token = None)

\* the right password for an account that is inactive has just been refused
C5_Witness ==
    /\ resp.status = 401
    /\ resp.msg = "Account is deactivated"
    /\ resp.access_token = None
    /\ \E data \in LoginBodies : \E user \in FirstMatch(data.username) :
          /\ user # 0
          /\ check_password(users[user], data.password)
          /\ ~users[user].is_active

\* C8: delete_role on a role that users hold is refused with the number of
\* holders and changes nothing; on a role no user holds it succeeds, with or
\* without permissions attached, and removes the role and nothing but the
\* role and its own permission edges.  No step removes a role that a user
\* holds.
C8_RoleReferentialGuard ==
    /\ [][\A role_id \in DOMAIN roles \ DOMAIN roles' :
            \A u \in DOMAIN users : <<u, role_id>> \notin user_roles]_vars
    /\ [](\A cred \in Creds, role_id \in DOMAIN roles :
            Authorized(cred, "role_delete") =>
                LET out == delete_role(DB, cred, role_id)
                    holders == {u \in DOMAIN users : <<u, role_id>> \in user_roles}
                IN IF holders # {}
                   THEN /\ out.status = 400
                        /\ out.count = Cardinality(holders)
                        /\ ApplyTx(DB, out.tx) = Done(DB)
                   ELSE /\ out.status = 200
                        /\ ApplyTx(DB, out.tx) =
                             Done([DB EXCEPT
                                     !.roles = Drop(roles, role_id),
                                     !.role_permissions =
                                        {e \in role_permissions : e[1] # role_id}]))

\* deleting a role that both users hold has just been refused with the count
C8_Witness ==
    /\ resp.status = 400
    /\ resp.msg = "Cannot delete role. It is assigned to user(s)"
    /\ resp.count = 2
    /\ Cardinality({u \in DOMAIN users : <<u, 4>> \in user_roles}) = 2
    /\ \E p \in DOMAIN permissions : <<4, p>> \in role_permissions

\* C9: delete_permission on a permission that a role references is refused
\* and changes nothing; it succeeds only when no role references the
\* permission, and then removes that permission alone.  No step removes a
\* permission that a role references.
C9_PermissionReferentialGuard ==
    /\ [][\A permission_id \in DOMAIN permissions \ DOMAIN permissions' :
            \A r \in DOMAIN roles : <<r, permission_id>> \notin role_permissions]_vars
    /\ [](\A cred \in Creds, permission_id \in DOMAIN permissions :
            Authorized(cred, "permission_delete") =>
                LET out == delete_permission(DB, cred, permission_id)
                    referenced == \E r \in DOMAIN roles :
                                     <<r, permission_id>> \in role_permissions
                IN IF referenced
                   THEN /\ out.status = 400
                        /\ ApplyTx(DB, out.tx) = Done(DB)
                   ELSE /\ out.status = 200
                        /\ ApplyTx(DB, out.tx) =
                             Done([DB EXCEPT
                                     !.permissions = Drop(permissions, permission_id)]))

\* deleting the tenth permission while the fourth role has it has just been
\* refused
C9_Witness ==
    /\ resp.status = 400
    /\ resp.msg = "Cannot delete permission. It is assigned to role(s)"
    /\ 10 \in DOMAIN permissions
    /\ <<4, 10>> \in role_permissions

\* C10: for an authorized caller, an existing user, role and permission:
\* assigning an edge that exists is refused (DuplicateAssociation) and
\* removing one that does not is refused (MissingAssociation), with nothing
\* changed; otherwise the request succeeds and adds or removes exactly the
\* named edge.
C10_AssociationsGuarded ==
    \A cred \in Creds, role_id \in DOMAIN roles :
        /\ Authorized(cred, "user_write") =>
              \A user_id \in DOMAIN users :
                  LET e == <<user_id, role_id>>
                      add == assign_role_to_user(DB, cred, user_id, role_id)
                      del == remove_role_from_user(DB, cred, user_id, role_id)
                  IN IF e \in user_roles
                     THEN /\ add.status = 400
                          /\ add.msg = "User already has this role"
                          /\ ApplyTx(DB, add.tx) = Done(DB)
                          /\ del.status = 200
                          /\ ApplyTx(DB, del.tx) =
                               Done([DB EXCEPT !.user_roles = user_roles \ {e}])
                     ELSE /\ del.status = 400
                          /\ del.msg = "User does not have this role"
                          /\ ApplyTx(DB, del.tx) = Done(DB)
                          /\ add.status = 200
                          /\ ApplyTx(DB, add.tx) =
                               Done([DB EXCEPT !.user_roles = user_roles \cup {e}])
        /\ Authorized(cred, "role_write") =>
              \A permission_id \in DOMAIN permissions :
                  LET e == <<role_id, permission_id>>
                      add == assign_permission_to_role(DB, cred, role_id, permission_id)
                      del == remove_permission_from_role(DB, cred, role_id,
                                                         permission_id)
                  IN IF e \in role_permissions
                     THEN /\ add.status = 400
                          /\ add.msg = "Role already has this permission"
                          /\ ApplyTx(DB, add.tx) = Done(DB)
                          /\ del.status = 200
                          /\ ApplyTx(DB, del.tx) =
                               Done([DB EXCEPT
                                       !.role_permissions = role_permissions \ {e}])
                     ELSE /\ del.status = 400
                          /\ del.msg = "Role does not have this permission"
                          /\ ApplyTx(DB, del.tx) = Done(DB)
                          /\ add.status = 200
                          /\ ApplyTx(DB, add.tx) =
                               Done([DB EXCEPT
                                       !.role_permissions = role_permissions \cup {e}])

\* removing the fourth role from a user who does not hold it has just been
\* refused, the role existing and being held by the other user
C10_Witness ==
    /\ resp.status = 400
    /\ resp.msg = "User does not have this role"
    /\ \E u \in DOMAIN users : <<u, 4>> \in user_roles
    /\ \E u \in DOMAIN users : <<u, 4>> \notin user_roles

\* C6: under any interleaving of overlapping register, create_user,
\* update_user, update_profile, create_role, update_role, create_permission
\* and update_permission requests, no two users share a username or an
\* email, no two roles a name and no two permissions a name.
C6_NamesUnique ==
    /\ \A u, v \in DOMAIN users :
          u # v => /\ users[u].username # users[v].username
                   /\ users[u].email # users[v].email
    /\ \A r, q \in DOMAIN roles : r # q => roles[r].name # roles[q].name
    /\ \A p, q \in DOMAIN permissions :
          p # q => permissions[p].name # permissions[q].name

\* two overlapping requests aimed at one name: the first committed, the
\* commit of the second was refused by the database
C6_Witness ==
    /\ resp.status = 500
    /\ resp.msg = "IntegrityError"
    /\ \/ \E u \in DOMAIN users : users[u].email = "alice@hrms.com"
       \/ \E r \in DOMAIN roles : roles[r].name = "Y"
       \/ \E p \in DOMAIN permissions : permissions[p].name = "x"

\* the name or email of req is held by another entity than the one req
\* creates or updates
Collides(req) ==
    CASE req.op \in {"register", "create_user"} ->
           \E u \in DOMAIN users :
               users[u].username = req.name \/ users[u].email = req.email
      [] req.op = "update_user" ->
           \E u \in DOMAIN users \ {req.id} : users[u].username = req.name
      [] req.op = "update_profile" ->
           \E u \in DOMAIN users \ {tokens[req.cred.jti].sub} :
               users[u].email = req.email
      [] req.op = "create_role" ->
           \E r \in DOMAIN roles : roles[r].name = req.name
      [] req.op = "update_role" ->
           \E r \in DOMAIN roles \ {req.id} : roles[r].name = req.name
      [] req.op = "create_permission" ->
           \E p \in DOMAIN permissions : permissions[p].name = req.name
      [] req.op = "update_permission" ->
           \E p \in DOMAIN permissions \ {req.id} : permissions[p].name = req.name

\* C7: a create or update request whose name or email collides with another
\* entity when it commits is answered 400 and leaves the store unchanged,
\* also when the other entity was committed after the request made its
\* uniqueness check; it is never answered 500.
C7_CollisionIs400 ==
    [][\A i \in 1..Len(pending) :
          (Collides(pending[i].req) /\ Finish(i))
              => (resp'.status = 400 /\ UNCHANGED store)]_vars

\* C11 as stated: a DELETE /users/{id} by the user {id} is answered
\* 'Cannot delete your own account' whatever permissions the caller holds.
C11_AsStated ==
    \A cred \in Creds :
        Authenticated(cred) =>
            delete_user(DB, cred, tokens[cred.jti].sub).msg
                = "Cannot delete your own account"

\* C11, amended: a DELETE /users/{id} by the user {id} is always rejected and
\* changes nothing, with 'Cannot delete your own account' when the caller
\* holds user_delete and with 403 when not, so the user still exists; and no
\* step deletes a user by a request made with that user's own token.
C11_SelfDeletionGuard ==
    /\ [](\A cred \in Creds :
            Authenticated(cred) =>
                LET out == delete_user(DB, cred, tokens[cred.jti].sub)
                IN /\ ApplyTx(DB, out.tx) = Done(DB)
                   /\ IF Holds(tokens[cred.jti].sub, "user_delete")
                      THEN /\ out.status = 400
                           /\ out.msg = "Cannot delete your own account"
                      ELSE /\ out.status = 403
                           /\ out.msg = "Insufficient permissions")
    /\ [][\A user_id \in DOMAIN users \ DOMAIN users' :
            \A cred \in Creds :
                (cred.kind = "jwt" /\ tokens[cred.jti].sub = user_id)
                    => ~Respond(delete_user(DB, cred, user_id))]_vars

\* the administrator, who holds user_delete, has just been refused the
\* deletion of the administrator's own account
C11_Witness ==
    /\ resp.status = 400
    /\ resp.msg = "Cannot delete your own account"
    /\ \E cred \in Creds :
          /\ Authenticated(cred)
          /\ Holds(tokens[cred.jti].sub, "user_delete")

\* C12: a reset token is used at most once, also by reset_password requests
\* that overlap: a reset_password request changes a password only if its
\* token is still in reset_tokens when it commits, and it takes the token
\* out; a request made once the token has been used is answered 400
\* 'Invalid or expired token' and changes no password.
C12_ResetTokenSingleUse ==
    /\ [](\A token \in (1..secrets_drawn) \ DOMAIN reset_tokens :
            \A new \in Passwords, build \in BcryptBuilds :
                LET out == reset_password(DB, reset_tokens,
                                          ResetBody(token, new), "s1", build)
                IN /\ out.status = 400
                   /\ out.msg = "Invalid or expired token"
                   /\ out.tx = <<>>)
    /\ [][\A i \in 1..Len(pending) :
            (/\ pending[i].req.op = "reset_password"
             /\ FinishAccount(i)
             /\ users' # users)
                => /\ pending[i].req.token \in DOMAIN reset_tokens
                   /\ pending[i].req.token \notin DOMAIN reset_tokens']_vars

\* C13: forgot_password does not reveal whether an account exists: the
\* response to an email that belongs to a user and the response to one that
\* belongs to none are the same in status, message and token field.
C13_ForgotPasswordHidesExistence ==
    \A known, unknown \in Emails :
        View(forgot_password(DB, [email |-> known], secrets_drawn + 1))
            = View(forgot_password(DB, [email |-> unknown], secrets_drawn + 1))

\* C14: a request that is answered with an error has persisted none of its
\* changes: every step that changes the store, a password included, is the
\* step of a request answered 200 or 201, never 400, 401, 403, 404 or 500.
C14_NoChangeOnError ==
    [][store' # store => resp'.status \in {200, 201}]_vars

C16_RevocationIdempotent ==
    [][\A i \in 1..Len(pending) :
          (/\ pending[i].req.op = "logout"
           /\ pending[i].req.cred.jti \in blacklisted_tokens
           /\ FinishAccount(i))
              => /\ blacklisted_tokens' = blacklisted_tokens
                 /\ pending[i].out.status = 200
                       => /\ resp'.status = 200
                          /\ resp'.msg = "Successfully logged out"]_vars

\* of two logout requests that were verified with the same token, one has
\* added the id and been answered; the other is about to add it again
C16_Witness ==
    /\ resp.msg = "Successfully logged out"
    /\ \E i \in 1..Len(pending) :
          /\ pending[i].req.op = "logout"
          /\ pending[i].out.status = 200
          /\ pending[i].req.cred.jti \in blacklisted_tokens

\* C17: get_permissions(U) is the set of the permission names of all the
\* roles U holds, each name once, so P is in it iff has_permission(U, P);
\* and when a role Y holding exactly the permission x is assigned to a user
\* who holds no role, that user's permissions are {x} right after.
C17_PermissionsOfIsTheUnion ==
    /\ [](\A u \in DOMAIN users :
            /\ get_permissions(DB, u) = {P \in PermissionNames : Holds(u, P)}
            /\ \A P \in PermissionNames :
                  P \in get_permissions(DB, u) <=> has_permission(DB, u, P))
    /\ [][\A cred \in Creds :
            (/\ AssignRoleY(cred)
             /\ resp'.status = 200
             /\ RolesOf(DB, 2) = {}
             /\ roles[4].name = "Y"
             /\ {permissions[p].name : p \in PermsOf(DB, 4)} = {"x"})
                => get_permissions(DB, 2)' = {"x"}]_vars

\* the role Y, holding the permission x alone, has just been assigned to a
\* user who holds no other role, and that user's permissions are {x}
C17_Witness ==
    /\ resp.msg = "Role assigned to user"
    /\ 2 \in DOMAIN users
    /\ RolesOf(DB, 2) = {4}
    /\ roles[4].name = "Y"
    /\ PermsOf(DB, 4) = {10}
    /\ permissions[10].name = "x"
    /\ get_permissions(DB, 2) = {"x"}

\* cred can post the role Z: the name is free
FreshZ == RoleByName(DB, "Z") = {}

\* C18: a user who registers gets the Employee role and, on the seeded
\* graph, the permissions {user_read}; that user's POST /roles is answered
\* 403 as long as no role of theirs has role_write; and once the
\* administrator has assigned role_write to Employee, the POST /roles of
\* every still-valid token of that user, with a fresh name, is answered 201.
C18_EscalationScenario ==
    /\ [][(Register /\ resp'.status = 201)
             => \E u \in DOMAIN users' \ DOMAIN users :
                  /\ RolesOf(DB, u)' = RoleByName(DB, "Employee")
                  /\ get_permissions(DB, u)' =
                        {permissions[p].name : p \in PermsOf(DB, 3)}]_vars
    /\ [](\A cred \in AliceCreds :
            (Authenticated(cred) /\ ~Holds(tokens[cred.jti].sub, "role_write"))
                => /\ create_role(DB, cred, RoleZ).status = 403
                   /\ create_role(DB, cred, RoleZ).tx = <<>>)
    /\ [][\A admin \in Creds :
            (GrantRoleWrite(admin) /\ resp'.status = 200)
                => \A cred \in AliceCreds :
                      (/\ Authenticated(cred)
                       /\ RolesOf(DB, tokens[cred.jti].sub) = {3}
                       /\ FreshZ)
                          => /\ create_role(DB, cred, RoleZ).status = 403
                             /\ create_role(DB, cred, RoleZ).status' = 201]_vars

\* alice, who holds the Employee role alone, has created the role Z after
\* role_write was assigned to Employee
C18_Witness ==
    /\ resp.status = 201
    /\ resp.msg = "Role created successfully"
    /\ RoleByName(DB, "Z") # {}
    /\ <<3, 5>> \in role_permissions
    /\ \E u \in UserByUsername(DB, "alice") : RolesOf(DB, u) = {3}

\* this step is a request that calls set_password(p)
SetsPassword(p) ==
    \/ SeedAdminUser /\ p = "admin123"
    \/ Register /\ p = Alice.password
    \/ \E cred \in Creds : SetUserPassword(cred) /\ p = "new1"
    \/ \E cred \in Creds, current \in Passwords, build \in BcryptBuilds :
          Respond(change_password(DB, cred, PasswordBody(current, p), "s1", build))
    \/ \E token \in 1..MaxResetTokens, build \in BcryptBuilds :
          DoResetPassword(ResetBody(token, p), "s1", build)

\* C19: after every set_password on a user, through register, the seeding,
\* update_user, change-password or reset-password, check_password succeeds
\* for the password that was set and fails for every other string, the
\* previously set passwords included.
C19_PasswordRoundTrip ==
    [][\A u \in DOMAIN users' :
          (u \notin DOMAIN users \/ users'[u].password # users[u].password)
              => \E p \in Passwords :
                    /\ SetsPassword(p)
                    /\ \A q \in Passwords :
                          check_password(users'[u], q) <=> q = p]_vars

\* C20: change-password changes the stored password of the caller only when
\* the supplied current password checks against the stored hash; when it
\* does not, the request fails and the store is unchanged; and whatever the
\* request, nothing changes but the password of the user of the token.
C20_ChangePasswordNeedsCurrent ==
    \A cred \in Creds, current \in Passwords, new \in Passwords,
       build \in BcryptBuilds :
        LET out == change_password(DB, cred, PasswordBody(current, new),
                                   "s1", build)
            r == ApplyTx(DB, out.tx)
        IN /\ r.ok
           /\ r.db # DB
                 => /\ Authenticated(cred)
                    /\ check_password(users[tokens[cred.jti].sub], current)
                    /\ out.status = 200
                    /\ r.db = [DB EXCEPT !.users[tokens[cred.jti].sub].password =
                                  generate_password_hash(new, "s1")]
           /\ (Authenticated(cred)
               /\ ~check_password(users[tokens[cred.jti].sub], current))
                 => /\ out.status \in {400, 500}
                    /\ r.db = DB
           /\ (Authenticated(cred)
               /\ check_password(users[tokens[cred.jti].sub], current)
               /\ build = "truncate")
                 => /\ out.status = 200
                    /\ check_password(r.db.users[tokens[cred.jti].sub], new)

\* alice has changed her password, and a change-password request with a
\* current password that does not match has just been refused
C20_Witness ==
    /\ resp.status = 400
    /\ resp.msg = "Current password is incorrect"
    /\ \E u \in UserByUsername(DB, "alice") :
          /\ ~check_password(users[u], "alice123")
          /\ check_password(users[u], "p72+a")
          /\ \E cred \in Creds : Authenticated(cred) /\ tokens[cred.jti].sub = u

\* C21: in every reachable state, under any interleaving of overlapping
\* assign, remove, update and delete requests, every user-role edge joins an
\* existing user to an existing role and every role-permission edge an
\* existing role to an existing permission.
C21_NoDanglingAssociations ==
    /\ \A e \in user_roles : e[1] \in DOMAIN users /\ e[2] \in DOMAIN roles
    /\ \A e \in role_permissions :
          e[1] \in DOMAIN roles /\ e[2] \in DOMAIN permissions

\* C22: authorization does not consult is_active.  A valid token of an
\* existing user whose is_active is false is still answered by GET and PUT
\* /auth/profile and by change-password, and passes require_permission
\* exactly for the permissions the user holds; only login refuses the user,
\* with 'Account is deactivated' and no token.
C22_InactiveUserKeepsSession ==
    \A cred \in Creds :
        (Authenticated(cred) /\ ~users[tokens[cred.jti].sub].is_active) =>
            LET u == tokens[cred.jti].sub
            IN /\ get_profile(DB, cred).status = 200
               /\ update_profile(DB, cred, ProfileBody(None, None, "")).status = 200
               /\ \A P \in PermissionNames :
                     /\ Holds(u, P)
                           => require_permission(DB, "f", cred, P).status = 0
                     /\ ~Holds(u, P)
                           => require_permission(DB, "f", cred, P).status = 403
               /\ get_users(DB, cred).status
                     = IF Holds(u, "user_read") THEN 200 ELSE 403
               /\ \A p \in Passwords :
                     check_password(users[u], p) =>
                         /\ change_password(DB, cred, PasswordBody(p, "new1"),
                                            "s1", "truncate").status = 200
                         /\ login(DB, [username |-> users[u].username,
                                       password |-> p], u).status = 401
                         /\ login(DB, [username |-> users[u].username,
                                       password |-> p], u).msg
                               = "Account is deactivated"
                         /\ login(DB, [username |-> users[u].username,
                                       password |-> p], u).access_token = None

\* alice, deactivated after she logged in, has just changed her password
\* with the token of that login
C22_Witness ==
    /\ resp.status = 200
    /\ resp.msg = "Password changed successfully"
    /\ \E cred \in Creds :
          /\ Authenticated(cred)
          /\ tokens[cred.jti].sub \in UserByUsername(DB, "alice")
          /\ ~users[tokens[cred.jti].sub].is_active

\* C23: the revocation set is changed only by logout.  A step that changes
\* it is a successful logout with a valid token and adds the id of that token
\* and nothing else; every other valid token, of the same user or of another,
\* is still valid after it; and a step answered otherwise than by
\* 'Successfully logged out' (a change-password, a reset-password, an
\* update_user that deactivates or sets a password, a delete_user) leaves
\* the set as it is.
C23_RevocationOnlyByLogout ==
    [][/\ blacklisted_tokens' # blacklisted_tokens
             => \E cred \in Creds :
                   /\ TokenValid(cred)
                   /\ Logout(cred)
                   /\ resp'.status = 200
                   /\ blacklisted_tokens' \ blacklisted_tokens = {cred.jti}
                   /\ blacklisted_tokens \subseteq blacklisted_tokens'
                   /\ \A other \in Creds \ {cred} :
                         TokenValid(other) => TokenValid(other)'
       /\ resp'.msg \in {"Password changed successfully",
                         "Password reset successfully",
                         "User updated successfully",
                         "User deleted successfully",
                         "Current password is incorrect", "KeyError"}
             => blacklisted_tokens' = blacklisted_tokens]_vars

\* one user holds two tokens; the first has just been revoked by logout and
\* the second is still valid
C23_Witness ==
    /\ resp.msg = "Successfully logged out"
    /\ Len(tokens) = 2
    /\ tokens[1].sub = tokens[2].sub
    /\ blacklisted_tokens = {1}
    /\ TokenValid(Jwt(2))

\* C26: a reset token is bound to the user it was issued for.  forgot_password
\* binds the new token to the user of the submitted email; as long as the
\* token is in reset_tokens it stays bound to that user, whose id is never
\* handed to a user created later; reset_password with the token changes the
\* password of that user and nothing else; and when that user no longer
\* exists it answers 404, changes no password and leaves the token in
\* reset_tokens.
C26_ResetTokenBoundToUser ==
    /\ [](\A token \in DOMAIN reset_tokens :
            LET out == reset_password(DB, reset_tokens, ResetBody(token, "new1"),
                                      "s1", "truncate")
                r == ApplyTx(DB, out.tx)
            IN IF reset_tokens[token] \in DOMAIN users
               THEN /\ out.status = 200
                    /\ r.ok
                    /\ r.db = [DB EXCEPT !.users[reset_tokens[token]].password =
                                  generate_password_hash("new1", "s1")]
               ELSE /\ out.status = 404
                    /\ out.msg = "User not found"
                    /\ out.tx = <<>>)
    /\ [][/\ \A token \in DOMAIN reset_tokens' \ DOMAIN reset_tokens :
                \E email \in Emails :
                    /\ DoForgotPassword([email |-> email])
                    /\ reset_tokens'[token] \in UserByEmail(DB, email)
          /\ \A token \in DOMAIN reset_tokens \cap DOMAIN reset_tokens' :
                /\ reset_tokens'[token] = reset_tokens[token]
                /\ reset_tokens[token] \notin DOMAIN users' \ DOMAIN users
          /\ resp'.msg = "User not found"
                => reset_tokens' = reset_tokens /\ users' = users]_vars

\* committing the outcome `out` changes the permission names of a user who
\* exists before and after
ChangesPermissions(out) ==
    LET r == ApplyTx(DB, out.tx)
    IN /\ r.ok
       /\ \E u \in DOMAIN users \cap DOMAIN r.db.users :
             get_permissions(r.db, u) # get_permissions(DB, u)

\* C24: the permission names of an existing user are changed only by a
\* request whose caller passed the check for user_write (update_user, assign
\* and remove role), role_write (update_role, assign and remove permission)
\* or permission_write (update_permission).  In every reachable state the
\* outcome of such a request changes them only for an authorized caller,
\* and the outcome of every other request, the create and delete routes and
\* the auth endpoints included, changes them for no caller; and every step
\* that changes them is answered by one of those seven routes.
C24_PermissionsFrame ==
    /\ [](\A cred \in Creds :
            /\ \A user_id \in DOMAIN users, role_id \in DOMAIN roles :
                  /\ ChangesPermissions(
                         update_user(DB, cred, user_id,
                             [NoChange EXCEPT !.role_ids = Some({role_id})], "s1"))
                        => Authorized(cred, "user_write")
                  /\ ChangesPermissions(
                         assign_role_to_user(DB, cred, user_id, role_id))
                        => Authorized(cred, "user_write")
                  /\ ChangesPermissions(
                         remove_role_from_user(DB, cred, user_id, role_id))
                        => Authorized(cred, "user_write")
                  /\ ~ChangesPermissions(delete_user(DB, cred, user_id))
                  /\ ~ChangesPermissions(
                          create_user(DB, cred,
                              [Zoe EXCEPT !.role_ids = Some({role_id})], "s1"))
            /\ \A role_id \in DOMAIN roles, permission_id \in {1, 5} :
                  /\ ChangesPermissions(
                         update_role(DB, cred, role_id,
                             [name |-> "", permission_ids |-> Some({permission_id})]))
                        => Authorized(cred, "role_write")
                  /\ ChangesPermissions(
                         assign_permission_to_role(DB, cred, role_id, permission_id))
                        => Authorized(cred, "role_write")
                  /\ ChangesPermissions(
                         remove_permission_from_role(DB, cred, role_id,
                                                     permission_id))
                        => Authorized(cred, "role_write")
                  /\ ~ChangesPermissions(delete_role(DB, cred, role_id))
                  /\ ~ChangesPermissions(
                          create_role(DB, cred, RoleY({permission_id})))
            /\ \A permission_id \in DOMAIN permissions :
                  /\ ChangesPermissions(
                         update_permission(DB, cred, permission_id,
                                           [name |-> "user_view"]))
                        => Authorized(cred, "permission_write")
                  /\ ~ChangesPermissions(delete_permission(DB, cred, permission_id))
            /\ ~ChangesPermissions(create_permission(DB, cred, [name |-> "x"]))
            /\ ~ChangesPermissions(register(DB, Zoe, "s1"))
            /\ ~ChangesPermissions(logout(cred))
            /\ ~ChangesPermissions(get_profile(DB, cred))
            /\ ~ChangesPermissions(
                    update_profile(DB, cred,
                                   ProfileBody(Some("Al"), None, "al@hrms.com")))
            /\ \A current \in Passwords :
                  ~ChangesPermissions(
                      change_password(DB, cred, PasswordBody(current, "new1"),
                                      "s1", "truncate"))
            /\ \A email \in Emails :
                  ~ChangesPermissions(forgot_password(DB, [email |-> email], 1))
            /\ ~ChangesPermissions(
                    reset_password(DB, reset_tokens, ResetBody(1, "new1"),
                                   "s1", "truncate")))
    /\ [][(\E u \in DOMAIN users \cap DOMAIN users' :
              get_permissions(DB, u)' # get_permissions(DB, u))
             => resp'.msg \in {"User updated successfully",
                               "Role assigned to user", "Role removed from user",
                               "Role updated successfully",
                               "Permission assigned to role",
                               "Permission removed from role",
                               "Permission updated successfully"}]_vars

\* the administrator has just renamed the permission user_read, which alice
\* holds through the Employee role: her permission names have changed
C24_Witness ==
    /\ resp.msg = "Permission updated successfully"
    /\ \E u \in UserByUsername(DB, "alice") :
          /\ RolesOf(DB, u) = {3}
          /\ "user_view" \in get_permissions(DB, u)
          /\ "user_read" \notin get_permissions(DB, u)

\* C25: a successful delete_role or delete_permission leaves the permission
\* names of every user unchanged: delete_role is answered 200 only for a
\* role no user holds, delete_permission only for a permission on no role,
\* and committing either changes get_permissions(U) for no user U; nor does
\* any step answered by a successful deletion of a role or a permission.
C25_DeletionKeepsPermissions ==
    /\ [](\A cred \in Creds :
            /\ \A role_id \in DOMAIN roles :
                  LET out == delete_role(DB, cred, role_id)
                      r == ApplyTx(DB, out.tx)
                  IN out.status = 200
                        => /\ r.ok
                           /\ role_id \notin DOMAIN r.db.roles
                           /\ \A u \in DOMAIN users :
                                 /\ <<u, role_id>> \notin user_roles
                                 /\ get_permissions(r.db, u) = get_permissions(DB, u)
            /\ \A permission_id \in DOMAIN permissions :
                  LET out == delete_permission(DB, cred, permission_id)
                      r == ApplyTx(DB, out.tx)
                  IN out.status = 200
                        => /\ r.ok
                           /\ permission_id \notin DOMAIN r.db.permissions
                           /\ \A q \in DOMAIN roles :
                                 <<q, permission_id>> \notin role_permissions
                           /\ \A u \in DOMAIN users :
                                 get_permissions(r.db, u) = get_permissions(DB, u))
    /\ [][resp'.msg \in {"Role deleted successfully",
                         "Permission deleted successfully"}
             => \A u \in DOMAIN users :
                   /\ u \in DOMAIN users'
                   /\ get_permissions(DB, u)' = get_permissions(DB, u)]_vars

\* the role Y has just been deleted while a user holds permissions through
\* another role and the permission x still exists
C25_Witness ==
    /\ resp.status = 200
    /\ resp.msg = "Role deleted successfully"
    /\ 4 \notin DOMAIN roles
    /\ 10 \in DOMAIN permissions
    /\ 2 \in DOMAIN users
    /\ get_permissions(DB, 2) # {}

\* C29: role_ids and permission_ids replace the association set wholesale.
\* For an authorized caller, create_user and update_user given role_ids leave
\* the user with exactly the existing roles whose id is in the list, and
\* create_role and update_role given permission_ids leave the role with
\* exactly the existing permissions whose id is in the list, whatever was
\* there before; ids of no existing entity are ignored and the request
\* succeeds; without the key an update leaves the set as it is and a create
\* leaves it empty; no other association changes.
C29_WholesaleReplacement ==
    \A cred \in Creds :
        /\ Authorized(cred, "user_write") =>
              /\ \A ids \in SUBSET {2, 3, 4, MaxRoleId + 1} :
                    /\ \A user_id \in DOMAIN users :
                          LET out == update_user(DB, cred, user_id,
                                         [NoChange EXCEPT !.role_ids = Some(ids)],
                                         "s1")
                              r == ApplyTx(DB, out.tx)
                          IN /\ out.status = 200
                             /\ r.ok
                             /\ RolesOf(r.db, user_id) = DOMAIN roles \cap ids
                             /\ r.db = [DB EXCEPT !.user_roles =
                                           {e \in @ : e[1] # user_id}
                                           \cup {<<user_id, q>> :
                                                   q \in DOMAIN roles \cap ids}]
                    /\ LET out == create_user(DB, cred,
                                      [Zoe EXCEPT !.role_ids = Some(ids)], "s1")
                           r == ApplyTx(DB, out.tx)
                           id == NextId(users)
                       IN /\ out.status = 201
                          /\ r.ok
                          /\ RolesOf(r.db, id) = DOMAIN roles \cap ids
                          /\ r.db.user_roles =
                                user_roles
                                \cup {<<id, q>> : q \in DOMAIN roles \cap ids}
              /\ \A user_id \in DOMAIN users :
                    ApplyTx(DB, update_user(DB, cred, user_id, NoChange, "s1").tx)
                        = Done(DB)
              /\ LET r == ApplyTx(DB, create_user(DB, cred, Zoe, "s1").tx)
                 IN r.ok /\ r.db.user_roles = user_roles
        /\ Authorized(cred, "role_write") =>
              /\ \A ids \in SUBSET {1, 5, 10, MaxPermId + 1} :
                    /\ \A role_id \in DOMAIN roles :
                          LET out == update_role(DB, cred, role_id,
                                         [name |-> "", permission_ids |-> Some(ids)])
                              r == ApplyTx(DB, out.tx)
                          IN /\ out.status = 200
                             /\ r.ok
                             /\ PermsOf(r.db, role_id) = DOMAIN permissions \cap ids
                             /\ r.db = [DB EXCEPT !.role_permissions =
                                           {e \in @ : e[1] # role_id}
                                           \cup {<<role_id, p>> :
                                                   p \in DOMAIN permissions \cap ids}]
                    /\ LET out == create_role(DB, cred,
                                      [name |-> "Z", permission_ids |-> Some(ids)])
                           r == ApplyTx(DB, out.tx)
                           id == NextId(roles)
                       IN /\ out.status = 201
                          /\ r.ok
                          /\ PermsOf(r.db, id) = DOMAIN permissions \cap ids
                          /\ r.db.role_permissions =
                                role_permissions
                                \cup {<<id, p>> : p \in DOMAIN permissions \cap ids}
              /\ \A role_id \in DOMAIN roles :
                    ApplyTx(DB, update_role(DB, cred, role_id,
                                    [name |-> "", permission_ids |-> None]).tx)
                        = Done(DB)
              /\ LET r == ApplyTx(DB, create_role(DB, cred, RoleZ).tx)
                 IN r.ok /\ r.db.role_permissions = role_permissions

\* an update_role with permission_ids = [5] has just left the role Y, which a
\* user holds, with role_write alone, the permission x existing
C29_Witness ==
    /\ resp.status = 200
    /\ resp.msg = "Role updated successfully"
    /\ 10 \in DOMAIN permissions
    /\ PermsOf(DB, 4) = {5}
    /\ \E u \in DOMAIN users : RolesOf(DB, u) = {3, 4}

C28_InitDatabaseIdempotent ==
    LET d == init_database(DB)
        Defaults == {DefaultPermissions[i] : i \in 1..Len(DefaultPermissions)}
        Named(names) == {p \in DOMAIN d.permissions : d.permissions[p].name \in names}
    IN /\ init_database(d) = d
       /\ d.users = users
       /\ d.user_roles = user_roles
       /\ \A p \in DOMAIN permissions :
             p \in DOMAIN d.permissions /\ d.permissions[p] = permissions[p]
       /\ \A q \in DOMAIN roles : q \in DOMAIN d.roles /\ d.roles[q] = roles[q]
       /\ \A p \in DOMAIN d.permissions \ DOMAIN permissions :
             /\ d.permissions[p].name \in Defaults
             /\ PermByName(DB, d.permissions[p].name) = {}
       /\ \A q \in DOMAIN d.roles \ DOMAIN roles :
             /\ d.roles[q].name \in {"Admin", "HR", "Employee"}
             /\ RoleByName(DB, d.roles[q].name) = {}
       /\ \A name \in Defaults : Cardinality(PermByName(d, name)) = 1
       /\ \A name \in {"Admin", "HR", "Employee"} :
             Cardinality(RoleByName(d, name)) = 1
       /\ \A q \in RoleByName(d, "Admin") : PermsOf(d, q) = DOMAIN d.permissions
       /\ \A q \in RoleByName(d, "HR") :
             PermsOf(d, q) = Named({"user_read", "user_write", "role_read"})
       /\ \A q \in RoleByName(d, "Employee") : PermsOf(d, q) = Named({"user_read"})
       /\ \A q \in DOMAIN roles :
             roles[q].name \notin {"Admin", "HR", "Employee"}
                 => {e \in d.role_permissions : e[1] = q}
                       = {e \in role_permissions : e[1] = q}

\* role_write was granted to Employee by the last request, and a restart
\* has since taken it away again and emptied the revocation set
C28_Witness ==
    /\ resp.msg = "Permission assigned to role"
    /\ RoleByName(DB, "Employee") = {3}
    /\ <<3, 5>> \notin role_permissions
    /\ PermsOf(DB, 3) = PermByName(DB, "user_read")
    /\ blacklisted_tokens = {}

====
